---- MODULE Spec2Model ----
(***************************************************************************)
(* A model of the stage hand-off machinery of the FRESCO HPC ETL pipeline: *)
(*   - the signal directory (step-2/utils/ready_signal_creator.py),        *)
(*   - the step-2 receiver (step-2/receiver.py) next to the consumer that  *)
(*     publishes daily outputs and `complete` signals (step-2/consumer.py),*)
(*   - the step-2 producer (step-2/producer.py),                           *)
(*   - the step-3 sender and receiver (step-3/sender.py, receiver.py),     *)
(*   - the output writers (step-1/hpc_transformer.py, parquet_loader.py),  *)
(*   - the step-1 orchestrator (step-1/hpc_transformer.py), the status and *)
(*     version JSON files it keeps on disk, and the fetch of the files of  *)
(*     a folder (also hpc_etl_pipeline/src/extractors/http_extractor.py),  *)
(*   - the aggregation of a time series file into a day file by the step-2 *)
(*     consumer (step-2/consumer.py),                                      *)
(*   - the command lines and their exit codes (run_pipeline.py and         *)
(*     step-1/hpc_transformer.py),                                         *)
(*   - the watch mode (hpc_etl_pipeline/src/watchers/file_watcher.py),     *)
(*   - the full extraction run (hpc_etl_pipeline/src/core/pipeline.py),    *)
(*   - the disk check before a folder (step-1/hpc_transformer.py),         *)
(*   - the daily files and completion signals that the step-2 consumer     *)
(*     makes of one metric file (step-2/consumer.py).                      *)
(*                                                                         *)
(* The components are separate programs working on separate directories.  *)
(* Each has its own specification (SpecSignal, SpecReceiver, ...) whose    *)
(* actions leave the variables of the other components unchanged.          *)
(*                                                                         *)
(* Fault model: an operation that moves data (shutil.copy2, a write of the *)
(* body of a data or signal file) may raise; metadata operations on a file *)
(* that is present (exists, stat, unlink, rename, touch) succeed.  The    *)
(* orchestrator (SpecOrchestrator) takes the writes of its two small JSON  *)
(* files as steps that succeed; SpecPersist follows the same writes open   *)
(* by dump by rename, with a dump that may fail and a process that may     *)
(* stop between any two of them.                                           *)
(***************************************************************************)
EXTENDS Integers, Sequences, FiniteSets, TLC

\* ------------------------------------------------------------------------
\* Bounds of the model
\* ------------------------------------------------------------------------

\* number of daily keys (YYYY-MM-DD) of the one month (YYYY-MM) modelled
NumDays == 1

\* last tick of the wall clock that stamps mtimes
MaxTime == 1

\* number of daily outputs the consumer may publish in all
MaxVer == 2

Days == 1..NumDays

\* the monthly key YYYY-MM of the days
Month == 0

Keys == Days \cup {Month}

\* ------------------------------------------------------------------------
\* State
\* ------------------------------------------------------------------------

VARIABLES
    prog        \* the program of the pipeline that is running

VARIABLES
    now,        \* wall clock
    signals,    \* signal directory: signals[k][s] is the file <k>.<s>
    call        \* the ReadySignalManager call in progress

\* step-2 consumer output, receiver and the directories they share
VARIABLES
    inputs,         \* INPUT_METRICS_DIR: inputs[d] is the day's input file
    srcOut,         \* SERVER_SOURCE_DIR: perf_metrics_<d>.parquet
    destOut,        \* LOCAL_DEST_DIR: perf_metrics_<d>.parquet
    destTemp,       \* LOCAL_DEST_DIR: temp_perf_metrics_<d>.parquet
    written,        \* how many daily outputs the consumer has published
    days_processed_successfully,    \* of the consumer's current run
    rpc,            \* position of the receiver
    completed_files,    \* the list main_loop iterates over
    cur,            \* date_str of the transfer_file call in progress
    retry_counter,  \* main_loop's retry_counter (0: no entry)
    copied,         \* whether the transfer_file call in progress copied data
    source_hash,    \* checksum the source file had when transfer_file went
                    \* to its copy or skipped it (0: no source file);
                    \* transfer_file itself computes none
    stale_days           \* the days whose transferred signal find_completed_files
                    \* removed as stale and transfer_file has not re-created

\* step-2 producer and the directories it copies into
VARIABLES
    ppc,            \* position of the producer
    what,           \* the file copy_file is copying: "accounting" or "metric"
    pdir,           \* pdir[w][p]: the file of kind w at hand, under path p
    dest_others,    \* non-temp files of METRICS_DEST_DIR besides the one at hand
    available_slots,
    files_processed_this_cycle,
    files_processed_in_this_month,
    month_limit

\* step-3 sender and the shared directory it copies into
VARIABLES
    spc,                \* position of the sender
    sdir,               \* DESTINATION_DIR: the file under its final and temp name
    transferred_files   \* whether process_files has recorded the file

\* the writers of output files and the output directory
VARIABLES
    wpc,            \* position of the writer
    writer,         \* the writer that is running
    wout,           \* the output file at hand under its final and its temp name
    attempt,        \* write_chunk_with_validation_and_retry: attempt
    chunk_num,      \* number of the chunk at hand
    chunks_saved,   \* _save_chunks: chunks_saved
    parts,          \* parts[i]: the file of chunk i under its final name
    saved           \* what the chunked write returned to its caller

\* the step-1 orchestrator and what it persists
VARIABLES
    opc,                \* position of the orchestrator
    status_file,        \* processing_status.json
    version_file,       \* version_info.json
    outputs,            \* outputs[f]: versions of folder f with an output file
    pending_folders,    \* run_transformation: pending_folders
    index,              \* run_transformation: index of the loop
    before              \* the persisted state when the run at hand began

\* the two JSON files ProcessingTracker and DataVersionManager persist, as the
\* file system holds them, and the objects in memory that are saved to them
VARIABLES
    jpc,        \* position of the process within save_status / save_versions
    tracker,    \* ProcessingTracker: the sets and the index in memory
    versions,   \* DataVersionManager.versions in memory
    disk        \* disk[p]: the file under path p

\* the step-2 consumer joining and aggregating one metric file in chunks
VARIABLES
    apc,                    \* position of process_ts_file_in_parallel
    ts_rows,                \* the rows of the metric file
    optimized_chunk_size,
    chunk_args,             \* start_row of the chunks whose arguments are made
    futures,                \* futures[i]: state of the future of chunk i
    daily_data_accumulator, \* the frames collected for the day
    terminate_requested,    \* the flag signal_handler sets
    day_file,               \* the frames concatenated into the day's file
    days_written,           \* days_processed_successfully of the call
    ret,                    \* what process_ts_file_in_parallel returned
    reported                \* what main_direct_processing made of it

\* the fetch of the required files of one folder
VARIABLES
    dpc,                \* position of download_folder_files
    extractor,          \* the class whose method is running
    local_files,        \* local_files[f]: the local copy of required file f
    download_attempt,   \* download_file: attempt, per file
    results,            \* download_files_parallel: results, per file
    fetched             \* what download_folder_files returned

\* one run of a command line
VARIABLES
    cpc,                \* position of main
    cli,                \* the program whose main is running
    mode,               \* the processing mode of the run
    handled,            \* the files handed to process_file so far
    processed_files,    \* Pipeline.processed_files, stats['processed']
    failed_files,       \* Pipeline.failed_files, stats['failed']
    interrupted,        \* whether a KeyboardInterrupt ended the run
    exit_code           \* what main handed to sys.exit, -1 before that

\* the programs below keep their state in one record each, with a field for
\* each attribute or local variable of the code

VARIABLES
    watcher,        \* the file watcher of the watch mode
    pipeline,       \* one full extraction run of Pipeline.run
    disk_check,     \* the disk check of HpcDataTransformer before each folder
    daily_files     \* the daily files the consumer writes for one metric file

\* position of the event handler
watch_pc == watcher.watch_pc

\* the events the observer has not dispatched yet
event_queue == watcher.event_queue

\* number of events the observer has reported
emitted == watcher.emitted

\* _process_file_with_retry: file_path
file_path == watcher.file_path

\* _process_file_with_retry: attempt
move_attempt == watcher.move_attempt

\* tasks[p]: calls of _process_file_with_retry for p
tasks == watcher.tasks

\* position of Pipeline.run
run_pc == pipeline.run_pc

\* the source argument
source == pipeline.source

\* the folders HttpExtractor.extract has yet to go to
to_extract == pipeline.to_extract

\* the folders _extract_folder was called for
attempted == pipeline.attempted

\* the extracted files that are not yet processed
extracted_files == pipeline.extracted_files

\* Pipeline.processed_files and failed_files
stats == pipeline.stats

\* position of run_transformation
disk_pc == disk_check.disk_pc

\* the number of folders the loop has gone through
folder_index == disk_check.folder_index

\* check_disk_space: the first value it returned
has_space == disk_check.has_space

\* check_disk_space: the second value it returned
free_gb == disk_check.free_gb

\* <<f, gb>>: folder f was started behind a check of gb
starts == disk_check.starts

\* what process_single_folder returned, per folder
folder_result == disk_check.folder_result

\* position of process_ts_file_in_parallel
loop_pc == daily_files.loop_pc

\* the day argument of the call, Month for None
call_day == daily_files.call_day

\* the days of the accumulator not yet gone through
to_write == daily_files.to_write

\* day_output[d]: perf_metrics_<d>.parquet
day_output == daily_files.day_output

\* day_temp[d]: a temp file left of a write of day d
day_temp == daily_files.day_temp

\* the days whose write returned a path in this call
written_days == daily_files.written_days

\* the days whose write returned None in this call
failed_days == daily_files.failed_days

\* the keys this call created a complete signal for
signalled == daily_files.signalled

\* the keys with a complete signal file
complete_signals == daily_files.complete_signals

sigVars == <<now, signals, call>>

recvVars == <<inputs, srcOut, destOut, destTemp, written,
              days_processed_successfully, rpc, completed_files, cur,
              retry_counter, copied, source_hash, stale_days>>

prodVars == <<ppc, what, pdir, dest_others, available_slots,
              files_processed_this_cycle, files_processed_in_this_month,
              month_limit>>

sendVars == <<spc, sdir, transferred_files>>

writeVars == <<wpc, writer, wout, attempt, chunk_num, chunks_saved, parts,
               saved>>

orchVars == <<opc, status_file, version_file, outputs, pending_folders, index,
              before>>

persistVars == <<jpc, tracker, versions, disk>>

\* the variables of the programs modelled on their own
aggVars == <<apc, ts_rows, optimized_chunk_size, chunk_args, futures,
             daily_data_accumulator, terminate_requested, day_file,
             days_written, ret, reported>>

dlVars == <<dpc, extractor, local_files, download_attempt, results, fetched>>

cliVars == <<cpc, cli, mode, handled, processed_files, failed_files,
             interrupted, exit_code>>

watchVars == <<watcher>>

runVars == <<pipeline>>

diskVars == <<disk_check>>

dailyVars == <<daily_files>>

\* the variables of the components added last
laterPrograms == <<watchVars, runVars, diskVars, dailyVars>>

otherPrograms == <<persistVars, aggVars, dlVars, cliVars, laterPrograms>>

\* the variables of the stage hand-off programs
pipelineVars == <<sigVars, recvVars, prodVars, sendVars, writeVars, orchVars>>

\* the variables outside the step-2 signal directory and receiver
elsewhere == <<prog, otherPrograms, prodVars, sendVars, writeVars, orchVars>>

\* the variables outside the step-2 producer
besideProducer == <<prog, otherPrograms, now, call, recvVars, sendVars, writeVars, orchVars>>

\* the variables outside the step-3 sender
besideSender == <<prog, otherPrograms, sigVars, recvVars, prodVars, writeVars, orchVars>>

\* the variables outside the writers
besideWriters == <<prog, otherPrograms, sigVars, recvVars, prodVars, sendVars, orchVars>>

\* the variables outside the step-1 orchestrator
besideOrchestrator ==
    <<prog, otherPrograms, now, signals, call, recvVars, prodVars, sendVars, writeVars>>

vars == <<prog, otherPrograms, sigVars, recvVars, prodVars, sendVars, writeVars, orchVars>>

\* ------------------------------------------------------------------------
\* Signal directory (ready_signal_creator.py)
\* ------------------------------------------------------------------------

\* JobStatus values that name signal files, plus the receiver's two statuses
JobStatus == {"ready", "processing", "complete", "failed"}

Status == JobStatus \cup {"transferred", "transfer_failed"}

\* a directory entry: absent, or a file with an mtime.  No code reads the
\* message of a signal file, so the body is not part of the entry: whether it
\* is still being written is the position of the writing call.
NoFile == [kind |-> "absent", mtime |-> 0]

SigFile == {NoFile} \cup [kind : {"file"}, mtime : 0..MaxTime]

Exists(f) == f.kind # "absent"

\* <key>.<status>
get_signal_path(k, s) == <<k, s>>

FileAt(dir, path) == dir[path[1]][path[2]]

PutFile(dir, path, f) == [dir EXCEPT ![path[1]][path[2]] = f]

\* Path.unlink() / os.remove of a path
Unlink(dir, path) == PutFile(dir, path, NoFile)

\* the mtime a write at this moment leaves on a signal file.  The entry keeps
\* it for the statuses whose mtime some code reads (find_completed_files
\* stats <key>.complete and <key>.transferred); the others read as 0.
Stamp(path) == IF path[2] \in {"complete", "transferred"} THEN now ELSE 0

\* open(path, 'w'): creates the file under its final name, or truncates it
OpenForWrite(dir, path) ==
    PutFile(dir, path, [kind |-> "file", mtime |-> Stamp(path)])

\* f.write(message) and close
WriteMessage(dir, path) ==
    PutFile(dir, path, [kind |-> "file", mtime |-> Stamp(path)])

\* Path.touch(exist_ok=True): creates an empty file, or refreshes the mtime
Touch(dir, path) ==
    PutFile(dir, path, [kind |-> "file", mtime |-> Stamp(path)])

\* no call in progress; op, key and result are those of the last call, and
\* removed tells whether that call found a ready or processing signal to remove
Idle == [pc |-> "idle", op |-> "ready", key |-> Month, result |-> FALSE,
         removed |-> FALSE]

\* create_signal, first half: the signal file is opened under its final name
create_signal_open(op, k) ==
    /\ call.pc = "idle"
    /\ signals' = OpenForWrite(signals, get_signal_path(k, op))
    /\ call' = [pc |-> "writing", op |-> op, key |-> k, result |-> FALSE,
                removed |-> FALSE]
    /\ UNCHANGED <<now, recvVars, elsewhere>>

\* the removal that follows create_signal in create_complete_signal and
\* create_failed_signal
RemovesPrior(op) == op \in {"complete", "failed"}

\* create_signal, second half: the message is written, or the write raises
\* and create_signal returns False with the file left as opened
create_signal_write(ok) ==
    /\ call.pc = "writing"
    /\ signals' = IF ok THEN WriteMessage(signals, get_signal_path(call.key, call.op))
                        ELSE signals
    /\ call' = IF RemovesPrior(call.op)
               THEN [call EXCEPT !.pc = "remove", !.result = ok]
               ELSE [Idle EXCEPT !.op = call.op, !.key = call.key, !.result = ok]
    /\ UNCHANGED <<now, recvVars, elsewhere>>

\* a create_complete_signal that forgets the processing signal
RemovePriorSignals_ready_only(dir, k) == Unlink(dir, get_signal_path(k, "ready"))

\* "Remove ready and processing signals if they exist"
RemovePriorSignals(dir, k) ==
    Unlink(Unlink(dir, get_signal_path(k, "ready")), get_signal_path(k, "processing"))

HasPrior(dir, k) ==
    \/ Exists(FileAt(dir, get_signal_path(k, "ready")))
    \/ Exists(FileAt(dir, get_signal_path(k, "processing")))

\* create_complete_signal / create_failed_signal after create_signal: remove
\* the ready and the processing signal of the key, return create_signal's result
remove_prior_and_return ==
    /\ call.pc = "remove"
    /\ signals' = RemovePriorSignals(signals, call.key)
    /\ call' = [call EXCEPT !.pc = "idle",
                             !.removed = HasPrior(signals, call.key)]
    /\ UNCHANGED <<now, recvVars, elsewhere>>

create_ready_signal(k) == create_signal_open("ready", k)

create_processing_signal(k) == create_signal_open("processing", k)

create_complete_signal(k) == create_signal_open("complete", k)

create_failed_signal(k) == create_signal_open("failed", k)

InitSignals ==
    /\ now = 0
    /\ signals = [k \in Keys |-> [s \in Status |-> NoFile]]
    /\ call = Idle

\* producer.py create_ready_signal: touch <day>.ready
producer_create_ready_signal(d) ==
    /\ signals' = Touch(signals, get_signal_path(d, "ready"))
    /\ UNCHANGED <<now, call, recvVars, elsewhere>>

\* ------------------------------------------------------------------------
\* Data files
\* ------------------------------------------------------------------------

\* a data file: absent, partially written, or whole; data identifies the
\* bytes (those of the n-th output the consumer published)
NoData == [kind |-> "absent", data |-> 0]

DataFile == {NoData} \cup [kind : {"partial", "whole"}, data : 1..MaxVer]

Whole(v) == [kind |-> "whole", data |-> v]

Partial(v) == [kind |-> "partial", data |-> v]

\* the checksum of a file: 0 for no file, else a digest that tells the bytes
\* and whether all of them are there (no collisions within the model)
MD5(f) == IF f.kind = "absent" THEN 0
          ELSE IF f.kind = "whole" THEN 2 * f.data ELSE 2 * f.data + 1

\* ------------------------------------------------------------------------
\* Step-2 consumer, as far as the receiver sees it (consumer.py)
\* ------------------------------------------------------------------------

\* create_complete_signal as one step: the signal is written, the ready and
\* processing signals of the key are removed
MarkComplete(dir, k) ==
    RemovePriorSignals(WriteMessage(dir, get_signal_path(k, "complete")), k)

\* write_accumulated_daily_files, one day: write_daily_parquet moves the
\* written temp file to perf_metrics_<d>.parquet, then create_complete_signal
consumer_write_day(d) ==
    /\ written < MaxVer
    /\ written' = written + 1
    /\ srcOut' = [srcOut EXCEPT ![d] = Whole(written + 1)]
    /\ signals' = MarkComplete(signals, d)
    /\ days_processed_successfully' = 1
    /\ UNCHANGED <<now, call, inputs, destOut, destTemp, rpc, completed_files,
                   cur, retry_counter, copied, source_hash,
                   stale_days, elsewhere>>

\* the bytes of the outputs of day d that are on disk
OutputsOf(d) ==
    { f.data : f \in { g \in {srcOut[d], destOut[d]} : g.kind = "whole" } }

\* write_accumulated_daily_files, one day, when the consumer processes the
\* inputs of a day again: the file it publishes has the bytes v of an earlier
\* output of the day
consumer_write_day_again(d, v) ==
    /\ written < MaxVer
    /\ v \in OutputsOf(d)
    /\ written' = written + 1
    /\ srcOut' = [srcOut EXCEPT ![d] = Whole(v)]
    /\ signals' = MarkComplete(signals, d)
    /\ days_processed_successfully' = 1
    /\ UNCHANGED <<now, call, inputs, destOut, destTemp, rpc, completed_files,
                   cur, retry_counter, copied, source_hash, stale_days,
                   elsewhere>>

\* write_accumulated_daily_files, end: "if days_processed_successfully > 0:
\* create_complete_signal(year, month)"
consumer_complete_month ==
    /\ days_processed_successfully > 0
    /\ signals' = MarkComplete(signals, Month)
    /\ days_processed_successfully' = 0
    /\ UNCHANGED <<now, call, inputs, srcOut, destOut, destTemp, written, rpc,
                   completed_files, cur, retry_counter, copied, source_hash,
                   stale_days, elsewhere>>

\* ------------------------------------------------------------------------
\* Step-2 receiver (receiver.py)
\* ------------------------------------------------------------------------

MAX_RETRIES == 3

Mtime(dir, k, s) == FileAt(dir, get_signal_path(k, s)).mtime

HasSignal(dir, k, s) == Exists(FileAt(dir, get_signal_path(k, s)))

\* isStale: the complete signal of key c is newer than the transferred signal
\* of day d
IsStale(dir, c, d) == Mtime(dir, c, "complete") > Mtime(dir, d, "transferred")

\* find_completed_files, the branch of one signal <c>.complete for the day d
\* it names (c = d) or contains (c = Month): the pair of the signal directory
\* and the list after the branch
FindOne(st, c, d) ==
    LET dir == st[1]
        lst == st[2]
    IN  IF HasSignal(dir, d, "transferred") /\ ~IsStale(dir, c, d)
        THEN st
        ELSE LET dir2 == IF HasSignal(dir, d, "transferred")
                         THEN Unlink(dir, get_signal_path(d, "transferred"))
                         ELSE dir
             IN  IF Exists(srcOut[d]) THEN <<dir2, Append(lst, d)>>
                                      ELSE <<dir2, lst>>

\* the monthly branch over the days dd, dd+1, .. of the month's source files
RECURSIVE FindMonth(_, _)
FindMonth(st, dd) ==
    IF dd > NumDays THEN st
    ELSE FindMonth(IF Exists(srcOut[dd]) THEN FindOne(st, Month, dd) ELSE st,
                   dd + 1)

\* the branch find_completed_files takes for the signal <c>.complete
FindSignal(st, c) ==
    IF c = Month
    THEN IF HasSignal(st[1], Month, "transferred") THEN st
         ELSE FindMonth(st, 1)
    ELSE FindOne(st, c, c)

\* find_completed_files over the complete signals in the order order
RECURSIVE FindAll(_, _)
FindAll(st, order) ==
    IF order = <<>> THEN st
    ELSE FindAll(FindSignal(st, Head(order)), Tail(order))

\* the orders in which glob("*.complete") may list the signals of a set
Orders(S) ==
    { o \in [1..Cardinality(S) -> S] :
        \A i, j \in 1..Cardinality(S) : i # j => o[i] # o[j] }

CompleteSignals == { k \in Keys : HasSignal(signals, k, "complete") }

\* the days whose transferred signal find_completed_files removed ("Stale
\* transfer detected"), given the signal directory before and after it
RemovedAsStale(dir, dir2) ==
    { d \in Days : HasSignal(dir, d, "transferred")
                      /\ ~HasSignal(dir2, d, "transferred") }

\* main_loop: completed_files = find_completed_files()
find_completed_files ==
    /\ rpc = "poll"
    /\ \E order \in Orders(CompleteSignals) :
          LET st == FindAll(<<signals, <<>> >>, order)
          IN  /\ signals' = st[1]
              /\ completed_files' = st[2]
              /\ stale_days' = stale_days \cup RemovedAsStale(signals, st[1])
    /\ rpc' = "next"
    /\ UNCHANGED <<now, call, inputs, srcOut, destOut, destTemp, written,
                   days_processed_successfully, cur, retry_counter, copied,
                   source_hash, elsewhere>>

\* main_loop: the list is exhausted, sleep and poll again
main_loop_sleep ==
    /\ rpc = "next"
    /\ completed_files = <<>>
    /\ rpc' = "poll"
    /\ UNCHANGED <<sigVars, inputs, srcOut, destOut, destTemp, written,
                   days_processed_successfully, completed_files, cur,
                   retry_counter, copied, source_hash,
                   stale_days, elsewhere>>

\* main_loop: the retry limit of the next file is reached: write the
\* transfer_failed signal, drop the counter, continue
main_loop_give_up ==
    /\ rpc = "next"
    /\ completed_files # <<>>
    /\ retry_counter[Head(completed_files)] >= MAX_RETRIES
    /\ signals' = WriteMessage(signals,
                      get_signal_path(Head(completed_files), "transfer_failed"))
    /\ retry_counter' = [retry_counter EXCEPT ![Head(completed_files)] = 0]
    /\ completed_files' = Tail(completed_files)
    /\ UNCHANGED <<now, call, inputs, srcOut, destOut, destTemp, written,
                   days_processed_successfully, rpc, cur, copied, source_hash,
                   stale_days, elsewhere>>

\* main_loop: transfer_file(source_path, date_str) is called for the next file
transfer_file_begin ==
    /\ rpc = "next"
    /\ completed_files # <<>>
    /\ retry_counter[Head(completed_files)] < MAX_RETRIES
    /\ cur' = Head(completed_files)
    /\ completed_files' = Tail(completed_files)
    /\ copied' = FALSE
    /\ rpc' = "exists"
    /\ UNCHANGED <<sigVars, inputs, srcOut, destOut, destTemp, written,
                   days_processed_successfully, retry_counter, source_hash,
                   stale_days, elsewhere>>

\* transfer_file returns False: main_loop increments the retry counter
ReturnFalse ==
    /\ retry_counter' = [retry_counter EXCEPT ![cur] = @ + 1]
    /\ rpc' = "next"

\* transfer_file: "if dest_path.exists()": skip the copy
transfer_file_dest_exists ==
    /\ rpc = "exists"
    /\ Exists(destOut[cur])
    /\ source_hash' = MD5(srcOut[cur])
    /\ rpc' = "cleanup"
    /\ UNCHANGED <<sigVars, inputs, srcOut, destOut, destTemp, written,
                   days_processed_successfully, completed_files, cur,
                   retry_counter, copied, stale_days, elsewhere>>

\* transfer_file: shutil.copy2(source_path, temp_dest_path) starts writing the
\* temp file; with no source file it raises and transfer_file returns False
transfer_file_copy_start ==
    /\ rpc = "exists"
    /\ ~Exists(destOut[cur])
    /\ source_hash' = MD5(srcOut[cur])
    /\ IF Exists(srcOut[cur])
       THEN /\ destTemp' = [destTemp EXCEPT ![cur] = Partial(srcOut[cur].data)]
            /\ rpc' = "copying"
            /\ UNCHANGED retry_counter
       ELSE /\ ReturnFalse
            /\ UNCHANGED destTemp
    /\ UNCHANGED <<sigVars, inputs, srcOut, destOut, written,
                   days_processed_successfully, completed_files, cur, copied,
                   stale_days, elsewhere>>

\* transfer_file: the copy completes, or it raises: the except branch removes
\* the temp file and transfer_file returns False
transfer_file_copy_end(ok) ==
    /\ rpc = "copying"
    /\ IF ok
       THEN /\ destTemp' = [destTemp EXCEPT ![cur] = Whole(destTemp[cur].data)]
            /\ rpc' = "rename"
            /\ UNCHANGED retry_counter
       ELSE /\ destTemp' = [destTemp EXCEPT ![cur] = NoData]
            /\ ReturnFalse
    /\ UNCHANGED <<sigVars, inputs, srcOut, destOut, written,
                   days_processed_successfully, completed_files, cur, copied, source_hash,
                   stale_days, elsewhere>>

\* transfer_file: os.rename(temp_dest_path, dest_path)
transfer_file_rename ==
    /\ rpc = "rename"
    /\ destOut' = [destOut EXCEPT ![cur] = destTemp[cur]]
    /\ destTemp' = [destTemp EXCEPT ![cur] = NoData]
    /\ copied' = TRUE
    /\ rpc' = "cleanup"
    /\ UNCHANGED <<sigVars, inputs, srcOut, written,
                   days_processed_successfully, completed_files, cur,
                   retry_counter, source_hash, stale_days, elsewhere>>

\* transfer_file: cleanup_input_files(date_str)
cleanup_input_files ==
    /\ rpc = "cleanup"
    /\ inputs' = [inputs EXCEPT ![cur] = FALSE]
    /\ rpc' = "touch"
    /\ UNCHANGED <<sigVars, srcOut, destOut, destTemp, written,
                   days_processed_successfully, completed_files, cur,
                   retry_counter, copied, source_hash,
                   stale_days, elsewhere>>

\* a marker created with the epoch as its mtime instead of the current time
MarkTransferred_copy_mtime(dir, d) ==
    PutFile(dir, get_signal_path(d, "transferred"),
            [kind |-> "file", mtime |-> 0])

\* a transfer that leaves the signal directory as it is
MarkTransferred_none(dir, d) == dir

\* transfer_file: transferred_signal.touch()
MarkTransferred(dir, d) == Touch(dir, get_signal_path(d, "transferred"))

transfer_file_touch ==
    /\ rpc = "touch"
    /\ signals' = MarkTransferred(signals, cur)
    /\ stale_days' = stale_days \ {cur}
    /\ rpc' = "unlink_complete"
    /\ UNCHANGED <<now, call, inputs, srcOut, destOut, destTemp, written,
                   days_processed_successfully, completed_files, cur,
                   retry_counter, copied, source_hash, elsewhere>>

\* transfer_file: "if complete_signal.exists(): complete_signal.unlink()"
transfer_file_unlink_complete ==
    /\ rpc = "unlink_complete"
    /\ signals' = Unlink(signals, get_signal_path(cur, "complete"))
    /\ rpc' = "month"
    /\ UNCHANGED <<now, call, inputs, srcOut, destOut, destTemp, written,
                   days_processed_successfully, completed_files, cur,
                   retry_counter, copied, source_hash,
                   stale_days, elsewhere>>

\* transfer_file: the monthly complete signal is removed when no
\* perf_metrics_<month>-*.parquet is left in the source directory
transfer_file_month_signal ==
    /\ rpc = "month"
    /\ signals' = IF /\ HasSignal(signals, Month, "complete")
                     /\ \A d \in Days : ~Exists(srcOut[d])
                  THEN Unlink(signals, get_signal_path(Month, "complete"))
                  ELSE signals
    /\ rpc' = "unlink_source"
    /\ UNCHANGED <<now, call, inputs, srcOut, destOut, destTemp, written,
                   days_processed_successfully, completed_files, cur,
                   retry_counter, copied, source_hash,
                   stale_days, elsewhere>>

\* transfer_file: source_path.unlink() (a missing source is logged), return
\* True: main_loop drops the retry counter of the file
transfer_file_unlink_source ==
    /\ rpc = "unlink_source"
    /\ srcOut' = [srcOut EXCEPT ![cur] = NoData]
    /\ retry_counter' = [retry_counter EXCEPT ![cur] = 0]
    /\ rpc' = "next"
    /\ UNCHANGED <<sigVars, inputs, destOut, destTemp, written,
                   days_processed_successfully, completed_files, cur, copied, source_hash,
                   stale_days, elsewhere>>

\* the wall clock advances
Tick ==
    /\ now < MaxTime
    /\ now' = now + 1
    /\ UNCHANGED <<signals, call, recvVars, elsewhere>>

InitReceiver ==
    /\ inputs = [d \in Days |-> TRUE]
    /\ srcOut = [d \in Days |-> NoData]
    /\ destOut = [d \in Days |-> NoData]
    /\ destTemp = [d \in Days |-> NoData]
    /\ written = 0
    /\ days_processed_successfully = 0
    /\ rpc = "poll"
    /\ completed_files = <<>>
    /\ cur = 1
    /\ retry_counter = [d \in Days |-> 0]
    /\ copied = FALSE
    /\ source_hash = 0
    /\ stale_days = {}


\* ------------------------------------------------------------------------
\* Step-2 producer (producer.py)
\* ------------------------------------------------------------------------

MAX_FILES_IN_DESTINATION == 31

files_per_month_limit == MAX_FILES_IN_DESTINATION

\* copy_file: final_dest_path = dest_dir / file_name
final_dest_path == "final"

\* a copy_file that copies under the final name
temp_dest_path_is_final == final_dest_path

\* copy_file: temp_dest_path = dest_dir / (file_name + TEMP_EXTENSION)
temp_dest_path == "temp"

\* the bytes of the source files of the producer
SourceBytes == 1

\* the main loop counts the files of the month directories of
\* METRICS_DEST_DIR whose name does not end with TEMP_EXTENSION
current_file_count ==
    dest_others + (IF Exists(pdir["metric"][final_dest_path]) THEN 1 ELSE 0)

Min(a, b) == IF a < b THEN a ELSE b

\* a main loop that hands out the whole limit whatever the destination holds
AvailableSlots_whole_limit(count) == MAX_FILES_IN_DESTINATION

\* available_slots = MAX_FILES_IN_DESTINATION - current_file_count
AvailableSlots(count) == MAX_FILES_IN_DESTINATION - count

\* main: the destination is full: sleep DEST_FULL_WAIT_SECONDS, count again
main_wait_destination_full ==
    /\ ppc = "cycle"
    /\ \/ current_file_count >= MAX_FILES_IN_DESTINATION
       \/ AvailableSlots(current_file_count) <= 0
    /\ UNCHANGED <<signals, prodVars, besideProducer>>

\* main: a cycle begins with the slots the destination has left
main_begin_cycle ==
    /\ ppc = "cycle"
    /\ current_file_count < MAX_FILES_IN_DESTINATION
    /\ AvailableSlots(current_file_count) > 0
    /\ files_processed_this_cycle' = 0
    /\ available_slots' = AvailableSlots(current_file_count)
    /\ ppc' = "months"
    /\ UNCHANGED <<signals, what, pdir, dest_others,
                   files_processed_in_this_month, month_limit, besideProducer>>

\* main: no month folder is left: the cycle ends
main_end_cycle ==
    /\ ppc = "months"
    /\ ppc' = "cycle"
    /\ UNCHANGED <<signals, what, pdir, dest_others, available_slots,
                   files_processed_this_cycle, files_processed_in_this_month,
                   month_limit, besideProducer>>

\* main: the next month folder with metric files: "if month_limit <= 0: break"
main_next_month ==
    /\ ppc = "months"
    /\ files_processed_in_this_month' = 0
    /\ month_limit' = Min(available_slots, files_per_month_limit)
    /\ ppc' = IF Min(available_slots, files_per_month_limit) <= 0
              THEN "cycle" ELSE "files"
    /\ UNCHANGED <<signals, what, pdir, dest_others, available_slots,
                   files_processed_this_cycle, besideProducer>>

\* main: after the files of a month: "if files_processed_this_cycle >=
\* available_slots: break" out of the month loop
AfterMonth ==
    IF files_processed_this_cycle >= available_slots THEN "cycle" ELSE "months"

\* main: the files of the month are exhausted, or the slots of the cycle are
main_month_done ==
    /\ ppc = "files"
    /\ ppc' = AfterMonth
    /\ UNCHANGED <<signals, what, pdir, dest_others, available_slots,
                   files_processed_this_cycle, files_processed_in_this_month,
                   month_limit, besideProducer>>

\* main: process_metric_file is called for the next metric file of the month.
\* The file may be at the destination already, and a temp file of an
\* interrupted copy may lie next to it.
main_next_file(present, stale) ==
    /\ ppc = "files"
    /\ files_processed_this_cycle < available_slots
    /\ present => current_file_count > 0
    /\ dest_others' = current_file_count - (IF present THEN 1 ELSE 0)
    /\ pdir' = [pdir EXCEPT
                 !["metric"] = [q \in {final_dest_path, "temp"} |->
                     IF q = final_dest_path
                     THEN (IF present THEN Whole(SourceBytes) ELSE NoData)
                     ELSE (IF stale THEN Partial(SourceBytes) ELSE NoData)]]
    /\ what' = "accounting"
    /\ ppc' = "accounting"
    /\ UNCHANGED <<signals, available_slots, files_processed_this_cycle,
                   files_processed_in_this_month, month_limit, besideProducer>>

\* process_metric_file returns False: main logs and goes to the next file
ProcessFailed ==
    /\ ppc' = "files"
    /\ UNCHANGED <<available_slots, files_processed_this_cycle,
                   files_processed_in_this_month>>

\* process_metric_file returns True: main counts the file and takes a slot
ProcessSucceeded ==
    /\ files_processed_this_cycle' = files_processed_this_cycle + 1
    /\ files_processed_in_this_month' = files_processed_in_this_month + 1
    /\ available_slots' = available_slots - 1
    /\ ppc' = IF files_processed_in_this_month + 1 >= month_limit
              THEN (IF files_processed_this_cycle + 1 >= available_slots - 1
                    THEN "cycle" ELSE "months")
              ELSE "files"

\* process_metric_file: the accounting file is at the destination, or has to
\* be copied from the source, or is at neither place
process_metric_file_accounting(at_source) ==
    /\ ppc = "accounting"
    /\ IF Exists(pdir["accounting"][final_dest_path])
       THEN /\ what' = "metric"
            /\ ppc' = "copy_file"
            /\ UNCHANGED <<available_slots, files_processed_this_cycle,
                           files_processed_in_this_month>>
       ELSE IF at_source
            THEN /\ what' = "accounting"
                 /\ ppc' = "copy_file"
                 /\ UNCHANGED <<available_slots, files_processed_this_cycle,
                                files_processed_in_this_month>>
            ELSE /\ ProcessFailed
                 /\ UNCHANGED what
    /\ UNCHANGED <<signals, pdir, dest_others, month_limit, besideProducer>>

\* copy_file returns False
CopyFailed ==
    /\ ProcessFailed
    /\ UNCHANGED <<signals, what>>

\* copy_file returns True: the accounting file is followed by the metric
\* file, the metric file by the ready signal
CopyDone ==
    IF what = "accounting"
    THEN /\ what' = "metric"
         /\ ppc' = "copy_file"
         /\ UNCHANGED <<signals, available_slots, files_processed_this_cycle,
                        files_processed_in_this_month>>
    ELSE /\ ppc' = "ready"
         /\ UNCHANGED <<signals, what, available_slots,
                        files_processed_this_cycle,
                        files_processed_in_this_month>>

\* copy_file: "if final_dest_path.exists(): return True"
copy_file_exists ==
    /\ ppc = "copy_file"
    /\ Exists(pdir[what][final_dest_path])
    /\ CopyDone
    /\ UNCHANGED <<pdir, dest_others, month_limit, besideProducer>>

\* copy_file: a temp file is in the way and is deleted; then shutil.copy2
\* raises FileNotFoundError for a source that is gone, or starts to write the
\* temp file
copy_file_start(found) ==
    /\ ppc = "copy_file"
    /\ ~Exists(pdir[what][final_dest_path])
    /\ IF found
       THEN /\ pdir' = [pdir EXCEPT ![what][temp_dest_path] = Partial(SourceBytes)]
            /\ ppc' = "copying"
            /\ UNCHANGED <<signals, what, available_slots,
                           files_processed_this_cycle,
                           files_processed_in_this_month>>
       ELSE /\ pdir' = [pdir EXCEPT ![what][temp_dest_path] = NoData]
            /\ CopyFailed
    /\ UNCHANGED <<dest_others, month_limit, besideProducer>>

\* copy_file: the copy completes, or raises: "if temp_dest_path.exists() and
\* not final_dest_path.exists()" the temp file is deleted
copy_file_copied(ok) ==
    /\ ppc = "copying"
    /\ IF ok
       THEN /\ pdir' = [pdir EXCEPT ![what][temp_dest_path] = Whole(SourceBytes)]
            /\ ppc' = "rename"
            /\ UNCHANGED <<signals, what, available_slots,
                           files_processed_this_cycle,
                           files_processed_in_this_month>>
       ELSE /\ pdir' = IF Exists(pdir[what][final_dest_path]) THEN pdir
                       ELSE [pdir EXCEPT ![what][temp_dest_path] = NoData]
            /\ CopyFailed
    /\ UNCHANGED <<dest_others, month_limit, besideProducer>>

\* a rename that leaves the file under its temp name
Rename_none(d, from, to) == d

\* os.rename(temp_dest_path, final_dest_path)
Rename(d, from, to) ==
    IF from = to THEN d
    ELSE [q \in DOMAIN d |-> IF q = to THEN d[from]
                             ELSE IF q = from THEN NoData ELSE d[q]]

\* copy_file: the temp file is renamed to the final name
copy_file_rename ==
    /\ ppc = "rename"
    /\ pdir' = [pdir EXCEPT ![what] = Rename(@, temp_dest_path, final_dest_path)]
    /\ CopyDone
    /\ UNCHANGED <<dest_others, month_limit, besideProducer>>

\* process_metric_file: create_ready_signal for the day of the metric file,
\* return True
process_metric_file_ready(d) ==
    /\ ppc = "ready"
    /\ signals' = Touch(signals, get_signal_path(d, "ready"))
    /\ ProcessSucceeded
    /\ UNCHANGED <<what, pdir, dest_others, month_limit, besideProducer>>

\* a downstream stage removes a non-temp file from METRICS_DEST_DIR
downstream_remove(at_hand) ==
    /\ IF at_hand
       THEN /\ Exists(pdir["metric"][final_dest_path])
            /\ pdir' = [pdir EXCEPT !["metric"][final_dest_path] = NoData]
            /\ UNCHANGED dest_others
       ELSE /\ dest_others > 0
            /\ dest_others' = dest_others - 1
            /\ UNCHANGED pdir
    /\ UNCHANGED <<signals, ppc, what, available_slots,
                   files_processed_this_cycle, files_processed_in_this_month,
                   month_limit, besideProducer>>

InitProducerState ==
    /\ ppc = "cycle"
    /\ what = "metric"
    /\ pdir = [w \in {"accounting", "metric"} |->
                 [q \in {final_dest_path, "temp"} |-> NoData]]
    /\ dest_others = 0
    /\ available_slots = 0
    /\ files_processed_this_cycle = 0
    /\ files_processed_in_this_month = 0
    /\ month_limit = 0

\* ------------------------------------------------------------------------
\* Step-3 sender (step-3/sender.py)
\* ------------------------------------------------------------------------

\* process_files: a stable, complete source file that is not in
\* transferred_files: copy_file_safely starts shutil.copy2 to the temp name
copy_file_safely_start ==
    /\ spc = "scan"
    /\ ~transferred_files
    /\ sdir' = [sdir EXCEPT !["temp"] = Partial(SourceBytes)]
    /\ spc' = "copying"
    /\ UNCHANGED <<transferred_files, besideSender>>

\* copy_file_safely: the copy ends: whole, or short of the size the source
\* has by now, or with an exception: the temp file is unlinked, return False
copy_file_safely_copied(outcome) ==
    /\ spc = "copying"
    /\ sdir' = [sdir EXCEPT !["temp"] =
                  IF outcome = "whole" THEN Whole(SourceBytes)
                  ELSE IF outcome = "short" THEN Partial(SourceBytes)
                  ELSE NoData]
    /\ spc' = IF outcome = "raised" THEN "scan" ELSE "verify"
    /\ UNCHANGED <<transferred_files, besideSender>>

\* copy_file_safely: the sizes differ: the temp file is unlinked, return
\* False; else the temp file is renamed to the destination and process_files
\* adds the file to transferred_files
copy_file_safely_verify ==
    /\ spc = "verify"
    /\ IF sdir["temp"].kind # "whole"
       THEN /\ sdir' = [sdir EXCEPT !["temp"] = NoData]
            /\ UNCHANGED transferred_files
       ELSE /\ sdir' = Rename(sdir, "temp", final_dest_path)
            /\ transferred_files' = TRUE
    /\ spc' = "scan"
    /\ UNCHANGED besideSender

\* the sender is started again: transferred_files is empty
sender_restart ==
    /\ spc = "scan"
    /\ transferred_files
    /\ transferred_files' = FALSE
    /\ UNCHANGED <<spc, sdir, besideSender>>

\* the step-3 receiver moves the file out of the shared directory
shared_file_taken ==
    /\ Exists(sdir[final_dest_path])
    /\ sdir' = [sdir EXCEPT ![final_dest_path] = NoData]
    /\ UNCHANGED <<spc, transferred_files, besideSender>>

InitSender ==
    /\ spc = "scan"
    /\ sdir = [q \in {final_dest_path, "temp"} |-> NoData]
    /\ transferred_files = FALSE

\* ------------------------------------------------------------------------
\* Writers of output files (step-2/consumer.py write_daily_parquet,
\* step-1/hpc_transformer.py, hpc_etl_pipeline/src/loaders/parquet_loader.py)
\* ------------------------------------------------------------------------

\* chunks of one chunked write
NumChunks == 2

\* process_single_folder calls write_chunk_with_validation_and_retry with
\* max_retries=1
max_retries == 1

\* the writers: write_daily_parquet; process_single_folder writing a single
\* file and writing chunks; ParquetLoader._save_single_file and _save_chunks
Writers == {"write_daily_parquet", "single_file", "chunked",
            "_save_single_file", "_save_chunks"}

\* an output file: absent, of size 0, partly written, or whole
Sizes == {"absent", "empty", "partial", "whole"}

output_path == "final"

temp_path == "temp"

NoOutput == [q \in {output_path, temp_path} |-> "absent"]

\* the chunks of a chunked write: chunk_num + 1 of process_single_folder,
\* i + 1 of _save_chunks
PartIndices == 1..NumChunks

NoParts == [i \in PartIndices |-> "absent"]

\* the path the writer hands to write_parquet / pq.write_table
WritePath(w) ==
    IF w \in {"write_daily_parquet", "chunked"} THEN temp_path ELSE output_path

\* a writer is called.  The file names of process_single_folder carry a new
\* version and timestamp; the other writers may find a file of an earlier call
writer_call(w) ==
    /\ wpc = "idle"
    /\ writer' = w
    /\ attempt' = 0
    /\ chunk_num' = 0
    /\ chunks_saved' = 0
    /\ parts' = NoParts
    /\ saved' = "none"
    /\ wout' = IF w \in {"single_file", "chunked"} THEN NoOutput ELSE wout
    /\ wpc' = IF w = "chunked" THEN "attempt" ELSE "open"
    /\ UNCHANGED besideWriters

\* write_parquet / pq.write_table opens the path: the file exists with size 0
write_open ==
    /\ wpc = "open"
    /\ wout' = [wout EXCEPT ![WritePath(writer)] = "empty"]
    /\ wpc' = "writing"
    /\ UNCHANGED <<writer, attempt, chunk_num, chunks_saved, parts, saved,
                   besideWriters>>

\* write_parquet / pq.write_table raises before it has created the file
write_raise ==
    /\ wpc = "open"
    /\ wpc' = "raised"
    /\ UNCHANGED <<writer, wout, attempt, chunk_num, chunks_saved, parts,
                   saved, besideWriters>>

\* the body is written and the file closed, or the write raises and leaves
\* the file as far as it got
write_body(left) ==
    /\ wpc = "writing"
    /\ wout' = [wout EXCEPT ![WritePath(writer)] = left]
    /\ wpc' = IF left = "whole" THEN "written" ELSE "raised"
    /\ UNCHANGED <<writer, attempt, chunk_num, chunks_saved, parts, saved,
                   besideWriters>>

\* a move that leaves the temp file where it is
MoveTemp_copy(d) == [d EXCEPT ![output_path] = d[temp_path]]

\* shutil.move / Path.rename of the temp file to the final name
MoveTemp(d) ==
    [q \in DOMAIN d |-> IF q = output_path THEN d[temp_path] ELSE "absent"]

\* write_daily_parquet: the temp file is moved to perf_metrics_<day>.parquet;
\* after an exception None is returned and the temp file stays
write_daily_parquet_return ==
    /\ writer = "write_daily_parquet"
    /\ wpc \in {"written", "raised"}
    /\ wout' = IF wpc = "written" THEN MoveTemp(wout) ELSE wout
    /\ wpc' = "idle"
    /\ UNCHANGED <<writer, attempt, chunk_num, chunks_saved, parts, saved,
                   besideWriters>>

\* process_single_folder, single file: after pq.write_table the output is
\* verified; the exception handlers unlink output_path and return False
process_single_folder_return ==
    /\ writer = "single_file"
    /\ wpc \in {"written", "raised"}
    /\ wout' = IF wpc = "raised" THEN [wout EXCEPT ![output_path] = "absent"]
               ELSE wout
    /\ wpc' = "idle"
    /\ UNCHANGED <<writer, attempt, chunk_num, chunks_saved, parts, saved,
                   besideWriters>>

\* write_chunk_with_validation_and_retry: an attempt begins: an existing chunk
\* file and temp file are removed; with less than 5 GB free it returns False
\* and process_single_folder returns False
write_chunk_attempt(space) ==
    /\ writer = "chunked"
    /\ wpc = "attempt"
    /\ wout' = NoOutput
    /\ wpc' = IF space THEN "open" ELSE "idle"
    /\ saved' = IF space THEN saved ELSE "False"
    /\ UNCHANGED <<writer, attempt, chunk_num, chunks_saved, parts,
                   besideWriters>>

\* write_chunk_with_validation_and_retry: the attempt failed: the next
\* attempt, or False after max_retries + 1 attempts
Retry ==
    /\ attempt' = IF attempt < max_retries THEN attempt + 1 ELSE attempt
    /\ wpc' = IF attempt < max_retries THEN "attempt" ELSE "idle"
    /\ saved' = IF attempt < max_retries THEN saved ELSE "False"
    /\ UNCHANGED <<chunk_num, parts>>

\* write_chunk_with_validation_and_retry returns True: process_single_folder
\* goes to the next chunk, if there is one; after the last chunk it finds the
\* first chunk file in place and returns True
NextChunk ==
    /\ chunk_num' = chunk_num + 1
    /\ attempt' = 0
    /\ parts' = [parts EXCEPT ![chunk_num + 1] = wout[output_path]]
    /\ wpc' = IF chunk_num + 1 < NumChunks THEN "attempt" ELSE "idle"
    /\ saved' = IF chunk_num + 1 < NumChunks THEN saved ELSE "True"

\* write_chunk_with_validation_and_retry: the temp file is validated and
\* renamed to the chunk path, or is unlinked; after an exception both paths
\* are unlinked
write_chunk_validate(valid) ==
    /\ writer = "chunked"
    /\ wpc \in {"written", "raised"}
    /\ IF wpc = "written" /\ valid
       THEN /\ wout' = MoveTemp(wout)
            /\ wpc' = "renamed"
            /\ UNCHANGED <<attempt, chunk_num, parts, saved>>
       ELSE /\ wout' = IF wpc = "written"
                       THEN [wout EXCEPT ![temp_path] = "absent"]
                       ELSE NoOutput
            /\ Retry
    /\ UNCHANGED <<writer, chunks_saved, besideWriters>>

\* write_chunk_with_validation_and_retry: the chunk file is validated once
\* more after the rename; if that fails it is unlinked
write_chunk_verify(valid) ==
    /\ writer = "chunked"
    /\ wpc = "renamed"
    /\ IF valid
       THEN /\ wout' = IF chunk_num + 1 < NumChunks THEN NoOutput ELSE wout
            /\ NextChunk
       ELSE /\ wout' = [wout EXCEPT ![output_path] = "absent"]
            /\ Retry
    /\ UNCHANGED <<writer, chunks_saved, besideWriters>>

\* _save_single_file: validate_output decides the result; the file stays as
\* the write left it, also when the write raised
_save_single_file_return ==
    /\ writer = "_save_single_file"
    /\ wpc \in {"written", "raised"}
    /\ wpc' = "idle"
    /\ UNCHANGED <<writer, wout, attempt, chunk_num, chunks_saved, parts,
                   saved, besideWriters>>

\* _save_chunks: the chunk written is validated and counted, a chunk whose
\* write raised is skipped; then the next chunk is written to its own path;
\* after the last chunk _save_with_chunking returns chunks_saved > 0
_save_chunks_next(valid) ==
    /\ writer = "_save_chunks"
    /\ wpc \in {"written", "raised"}
    /\ chunks_saved' = IF wpc = "written" /\ valid THEN chunks_saved + 1
                       ELSE chunks_saved
    /\ chunk_num' = chunk_num + 1
    /\ parts' = [parts EXCEPT ![chunk_num + 1] = wout[output_path]]
    /\ saved' = IF chunk_num + 1 < NumChunks THEN saved
                ELSE IF chunks_saved' > 0 THEN "True" ELSE "False"
    /\ wout' = IF chunk_num + 1 < NumChunks THEN NoOutput ELSE wout
    /\ wpc' = IF chunk_num + 1 < NumChunks THEN "open" ELSE "idle"
    /\ UNCHANGED <<writer, attempt, besideWriters>>

InitWriters ==
    /\ wpc = "idle"
    /\ writer = "write_daily_parquet"
    /\ wout = NoOutput
    /\ attempt = 0
    /\ chunk_num = 0
    /\ chunks_saved = 0
    /\ parts = NoParts
    /\ saved = "none"

\* ------------------------------------------------------------------------
\* Step-1 orchestrator (step-1/hpc_transformer.py)
\* ------------------------------------------------------------------------

\* monthly folders of the repository
NumFolders == 2

\* last version number a folder may be given
MaxVersion == 2

Folders == 1..NumFolders

\* ProcessingTracker.save_status: the status as written to the status file.
\* The sets of the tracker are those of the file: load_status reads them and
\* every change of them is saved within the same call.
save_status(processed, failed, last_index) ==
    [processed_folders |-> processed, failed_folders |-> failed,
     last_processed_index |-> last_index, last_updated |-> now]

\* a tracker for which no folder counts as processed
is_processed_never(st, f) == FALSE

\* ProcessingTracker.is_processed
is_processed(st, f) == f \in st.processed_folders

\* ProcessingTracker.mark_processed
mark_processed(st, f, i) ==
    save_status(st.processed_folders \cup {f}, st.failed_folders \ {f},
                IF st.last_processed_index > i THEN st.last_processed_index
                ELSE i)

\* ProcessingTracker.mark_failed
mark_failed(st, f) ==
    save_status(st.processed_folders \ {f}, st.failed_folders \cup {f},
                st.last_processed_index)

\* FolderDiscovery.discover_folders: the sorted folders, or none on an error
discover_folders(found) ==
    IF found THEN [i \in 1..NumFolders |-> i] ELSE <<>>

\* the first n elements of a sequence
Prefix(seq, n) == SubSeq(seq, 1, Min(n, Len(seq)))

\* run_transformation: the folders that are not processed, at most
\* max_folders of them if max_folders is given (0: not given)
PendingFolders(st, folders, max_folders) ==
    LET pending == SelectSeq(folders, LAMBDA f : ~is_processed(st, f))
    IN  IF max_folders # 0 THEN Prefix(pending, max_folders) ELSE pending

\* run_transformation is called by a new process
run_transformation(found, max_folders) ==
    /\ opc = "idle"
    /\ before' = [status |-> status_file, versions |-> version_file,
                  outputs |-> outputs]
    /\ pending_folders' =
           PendingFolders(status_file, discover_folders(found), max_folders)
    /\ index' = 0
    /\ opc' = IF found THEN "loop" ELSE "idle"
    /\ UNCHANGED <<status_file, version_file, outputs, besideOrchestrator>>

\* run_transformation: the loop over pending_folders is over
run_transformation_return ==
    /\ opc = "loop"
    /\ index = Len(pending_folders)
    /\ opc' = "idle"
    /\ UNCHANGED <<status_file, version_file, outputs, pending_folders, index,
                   before, besideOrchestrator>>

\* process_single_folder returns False before an output name is made: no disk
\* space, a failed download, no data; run_transformation marks the folder
process_single_folder_no_data ==
    /\ opc = "loop"
    /\ index < Len(pending_folders)
    /\ status_file' = mark_failed(status_file, pending_folders[index + 1])
    /\ index' = index + 1
    /\ UNCHANGED <<opc, version_file, outputs, pending_folders, before,
                   besideOrchestrator>>

\* DataVersionManager.get_next_version: the next version is saved
get_next_version(vs, f) == [vs EXCEPT ![f] = @ + 1]

\* process_single_folder: the output name is made from the next version
process_single_folder_version ==
    /\ opc = "loop"
    /\ index < Len(pending_folders)
    /\ version_file[pending_folders[index + 1]] < MaxVersion
    /\ version_file' = get_next_version(version_file, pending_folders[index + 1])
    /\ opc' = "save"
    /\ UNCHANGED <<status_file, outputs, pending_folders, index, before,
                   besideOrchestrator>>

\* process_single_folder: the output is saved and verified and the folder is
\* marked processed, or saving fails and the folder is marked failed
process_single_folder_save(ok) ==
    /\ opc = "save"
    /\ LET f == pending_folders[index + 1]
       IN  IF ok
           THEN /\ outputs' = [outputs EXCEPT ![f] = @ \cup {version_file[f]}]
                /\ status_file' = mark_processed(status_file, f, index)
           ELSE /\ UNCHANGED outputs
                /\ status_file' = mark_failed(status_file, f)
    /\ index' = index + 1
    /\ opc' = "loop"
    /\ UNCHANGED <<version_file, pending_folders, before, besideOrchestrator>>

\* the clock of the orchestrator's host
orchestrator_tick ==
    /\ now < MaxTime
    /\ now' = now + 1
    /\ UNCHANGED <<signals, call, recvVars, prodVars, sendVars, writeVars,
                   orchVars, prog, otherPrograms>>

InitOrchestrator ==
    /\ opc = "idle"
    /\ status_file = [processed_folders |-> {}, failed_folders |-> {},
                      last_processed_index |-> -1, last_updated |-> 0]
    /\ version_file = [f \in Folders |-> 0]
    /\ outputs = [f \in Folders |-> {}]
    /\ pending_folders = <<>>
    /\ index = 0
    /\ before = [status |-> status_file, versions |-> version_file,
                 outputs |-> outputs]

\* ------------------------------------------------------------------------
\* The status JSON and the version JSON on disk (step-1/hpc_transformer.py)
\* ------------------------------------------------------------------------

\* the variables outside the two JSON files and their objects
besidePersist == <<prog, pipelineVars, aggVars, dlVars, cliVars, laterPrograms>>

\* the variables outside the step-2 consumer's aggregation
besideAggregate ==
    <<prog, pipelineVars, persistVars, dlVars, cliVars, laterPrograms>>

\* the variables outside the fetch of a folder
besideDownload ==
    <<prog, pipelineVars, persistVars, aggVars, cliVars, laterPrograms>>

\* the variables outside the run of a command line
besideCli == <<prog, pipelineVars, persistVars, aggVars, dlVars, laterPrograms>>

\* the variables outside the file watcher
besideWatch ==
    <<prog, pipelineVars, persistVars, aggVars, dlVars, cliVars, runVars,
      diskVars, dailyVars>>

\* the variables outside the full extraction run
besideRun ==
    <<prog, pipelineVars, persistVars, aggVars, dlVars, cliVars, watchVars,
      diskVars, dailyVars>>

\* the variables outside the disk check before a folder
besideDisk ==
    <<prog, pipelineVars, persistVars, aggVars, dlVars, cliVars, watchVars,
      runVars, dailyVars>>

\* the variables outside the daily files of one metric file
besideDaily ==
    <<prog, pipelineVars, persistVars, aggVars, dlVars, cliVars, watchVars,
      runVars, diskVars>>

\* ProcessingTracker.status_file
StatusPath == "processing_status.json"

\* save_status: temp_file = self.status_file + '.tmp'
temp_file == "processing_status.json.tmp"

\* DataVersionManager.version_file
VersionPath == "version_info.json"

JsonPaths == {StatusPath, temp_file, VersionPath}

\* a file that does not exist
NoJson == [kind |-> "absent", data |-> <<>>]

\* a file after open(path, 'w') and before json.dump has written it out, or
\* after a json.dump that raised: it holds no complete JSON document
Truncated == [kind |-> "truncated", data |-> <<>>]

\* a file that holds the whole JSON document of data
WholeJson(data) == [kind |-> "whole", data |-> data]

\* ProcessingTracker.__init__: the tracker before load_status
NewTracker ==
    [processed_folders |-> {}, failed_folders |-> {},
     last_processed_index |-> -1, last_updated |-> 0]

\* DataVersionManager.__init__: no folder has a version; get(folder, 0)
NewVersions == [f \in Folders |-> 0]

\* ProcessingTracker.load_status: the content of the file if it exists and
\* parses; json.load of a file that is not a whole document raises, the
\* exception is logged and the tracker stays as __init__ made it
load_status(file) == IF file.kind = "whole" THEN file.data ELSE NewTracker

\* DataVersionManager.load_versions, likewise
load_versions(file) == IF file.kind = "whole" THEN file.data ELSE NewVersions

\* mark_processed(folder_name, index) changes the tracker and calls save_status
persist_mark_processed(f, i) ==
    /\ jpc = "idle"
    /\ tracker' = mark_processed(tracker, f, i)
    /\ jpc' = "status_open"
    /\ UNCHANGED <<versions, disk, besidePersist>>

\* mark_failed(folder_name) changes the tracker and calls save_status
persist_mark_failed(f) ==
    /\ jpc = "idle"
    /\ tracker' = mark_failed(tracker, f)
    /\ jpc' = "status_open"
    /\ UNCHANGED <<versions, disk, besidePersist>>

\* save_status: open(temp_file, 'w')
save_status_open ==
    /\ jpc = "status_open"
    /\ disk' = [disk EXCEPT ![temp_file] = Truncated]
    /\ jpc' = "status_dump"
    /\ UNCHANGED <<tracker, versions, besidePersist>>

\* save_status: json.dump(data, f) into the temp file; if it raises, the
\* exception is logged and save_status returns
save_status_dump(ok) ==
    /\ jpc = "status_dump"
    /\ IF ok
       THEN /\ disk' = [disk EXCEPT ![temp_file] = WholeJson(tracker)]
            /\ jpc' = "status_rename"
       ELSE /\ UNCHANGED disk
            /\ jpc' = "idle"
    /\ UNCHANGED <<tracker, versions, besidePersist>>

\* save_status: os.rename(temp_file, self.status_file)
save_status_rename ==
    /\ jpc = "status_rename"
    /\ disk' = [disk EXCEPT ![StatusPath] = disk[temp_file],
                            ![temp_file] = NoJson]
    /\ jpc' = "idle"
    /\ UNCHANGED <<tracker, versions, besidePersist>>

\* get_next_version(folder_name) changes versions and calls save_versions
persist_get_next_version(f) ==
    /\ jpc = "idle"
    /\ versions[f] < MaxVersion
    /\ versions' = get_next_version(versions, f)
    /\ jpc' = "versions_open"
    /\ UNCHANGED <<tracker, disk, besidePersist>>

\* save_versions: open(self.version_file, 'w')
save_versions_open ==
    /\ jpc = "versions_open"
    /\ disk' = [disk EXCEPT ![VersionPath] = Truncated]
    /\ jpc' = "versions_dump"
    /\ UNCHANGED <<tracker, versions, besidePersist>>

\* save_versions: json.dump(self.versions, f) into the version file; if it
\* raises, the exception is logged and save_versions returns
save_versions_dump(ok) ==
    /\ jpc = "versions_dump"
    /\ disk' = IF ok THEN [disk EXCEPT ![VersionPath] = WholeJson(versions)]
               ELSE disk
    /\ jpc' = "idle"
    /\ UNCHANGED <<tracker, versions, besidePersist>>

\* the process dies at any point; the next process constructs the tracker and
\* the version manager, which load what the files hold
crash_and_restart ==
    /\ tracker' = load_status(disk[StatusPath])
    /\ versions' = load_versions(disk[VersionPath])
    /\ jpc' = "idle"
    /\ UNCHANGED <<disk, besidePersist>>

InitPersist ==
    /\ jpc = "idle"
    /\ tracker = NewTracker
    /\ versions = NewVersions
    /\ disk = [p \in JsonPaths |-> NoJson]

\* ------------------------------------------------------------------------
\* Step-2 consumer: join and aggregation of one metric file in chunks
\* (consumer.py, process_ts_file_in_parallel)
\* ------------------------------------------------------------------------

\* rows of the metric file a call may be given
MaxRows == 2

\* CONSUMER_MAX_WORKERS: the code takes it from the environment
MAX_WORKERS == 1

\* "Job Id" values of the metric file: digits only, or a name in any case
TsJobIds == {"1", "JOB2"}

\* process_chunk: digits get the prefix "job", anything else is lower-cased
NormalizeJobId(j) == IF j = "1" THEN "job1" ELSE "job2"

Hosts == {"host1"}

\* Timestamp values of the metric file, in seconds
Timestamps == {0, 30, 60}

\* the rows a metric file may hold: rows of the job of the accounting data
\* before and within its run, and a row of a job the accounting data lacks.
\* Rows of one job, host and second differ in their Event and Value, which do
\* not take part in what the model checks
TsRow ==
    { r \in [job : TsJobIds, host : Hosts, ts : Timestamps] :
        r.job = "JOB2" => r.ts = 30 }

\* read_jobs_df: the job accounting records, one per jobID
jobs_df == { [jobID |-> "job1", start_time |-> 30, end_time |-> 60] }

\* dt.truncate("1m")
Truncate1m(t) == (t \div 60) * 60

\* sequences over S of length at most n
SeqsUpTo(S, n) == UNION { [1..k -> S] : k \in 0..n }

\* read_parquet_chunk: slice(start_row, chunk_size) of the file's rows
read_parquet_chunk(rows, start_row, chunk_size) ==
    SubSeq(rows, start_row + 1, Min(start_row + chunk_size, Len(rows)))

\* process_chunk: inner join with the jobs on the normalised job id, filter on
\* start_time <= Timestamp <= end_time, truncate to the minute, and one
\* aggregated row for each unique (Job Id, Host, time) of the chunk
process_chunk(ts_chunk, jobs) ==
    { [jid |-> j.jobID, host |-> ts_chunk[i].host,
       time |-> Truncate1m(ts_chunk[i].ts)] :
        <<i, j>> \in { p \in (DOMAIN ts_chunk) \X jobs :
                        /\ NormalizeJobId(ts_chunk[p[1]].job) = p[2].jobID
                        /\ ts_chunk[p[1]].ts >= p[2].start_time
                        /\ ts_chunk[p[1]].ts <= p[2].end_time } }

\* process_chunk_in_process for the chunk that starts at start_row
process_chunk_in_process(rows, start_row, chunk_size) ==
    process_chunk(read_parquet_chunk(rows, start_row, chunk_size), jobs_df)

\* num_chunks = (total_rows + optimized_chunk_size - 1) // optimized_chunk_size
num_chunks == (Len(ts_rows) + optimized_chunk_size - 1) \div optimized_chunk_size

\* num_workers = min(MAX_WORKERS, num_chunks)
num_workers == Min(MAX_WORKERS, num_chunks)

\* the futures in state s
FuturesIn(s) == { i \in DOMAIN futures : futures[i] = s }

\* pl.concat(df_list): the number of rows of the concatenation with the
\* (jid, host, time) of t
RowCount(df_list, t) == Cardinality({ i \in DOMAIN df_list : t \in df_list[i] })

\* the (jid, host, time) triples of the rows of a list of frames
Triples(df_list) == UNION { df_list[i] : i \in DOMAIN df_list }

\* process_ts_file_in_parallel is called by main_direct_processing, which
\* stops calling it once termination is requested; a file with no rows is
\* "empty or unreadable" and the call returns True
process_ts_file_in_parallel(rows, size) ==
    /\ apc = "idle"
    /\ ~terminate_requested
    /\ ts_rows' = rows
    /\ optimized_chunk_size' = size
    /\ chunk_args' = <<>>
    /\ futures' = <<>>
    /\ daily_data_accumulator' = <<>>
    /\ day_file' = <<>>
    /\ days_written' = 0
    /\ reported' = "none"
    /\ IF Len(rows) = 0
       THEN ret' = "True" /\ apc' = "returned"
       ELSE ret' = "none" /\ apc' = "args"
    /\ UNCHANGED <<terminate_requested, besideAggregate>>

\* "for i in range(num_chunks)": break if termination is requested, else
\* append the arguments of chunk i to chunk_args
chunk_args_next ==
    /\ apc = "args"
    /\ IF Len(chunk_args) < num_chunks /\ ~terminate_requested
       THEN /\ chunk_args' =
                   Append(chunk_args, Len(chunk_args) * optimized_chunk_size)
            /\ UNCHANGED apc
       ELSE /\ apc' = "submit"
            /\ UNCHANGED chunk_args
    /\ UNCHANGED <<ts_rows, optimized_chunk_size, futures,
                   daily_data_accumulator, terminate_requested, day_file,
                   days_written, ret, reported, besideAggregate>>

\* "futures = [executor.submit(process_chunk_in_process, args) for args in
\* chunk_args]": the next chunk is submitted, or all are submitted and the loop
\* over as_completed(futures) begins
executor_submit ==
    /\ apc = "submit"
    /\ IF Len(futures) < Len(chunk_args)
       THEN /\ futures' = Append(futures, "queued")
            /\ UNCHANGED apc
       ELSE /\ apc' = "results"
            /\ UNCHANGED futures
    /\ UNCHANGED <<ts_rows, optimized_chunk_size, chunk_args,
                   daily_data_accumulator, terminate_requested, day_file,
                   days_written, ret, reported, besideAggregate>>

\* an exception outside the loop over the results, such as a broken process
\* pool: "Major error processing", return False
major_error ==
    /\ apc = "submit"
    /\ Len(futures) < Len(chunk_args)
    /\ ret' = "False"
    /\ apc' = "returned"
    /\ UNCHANGED <<ts_rows, optimized_chunk_size, chunk_args, futures,
                   daily_data_accumulator, terminate_requested, day_file,
                   days_written, reported, besideAggregate>>

\* a worker of the pool takes a submitted chunk
worker_start(i) ==
    /\ i \in FuturesIn("queued")
    /\ Cardinality(FuturesIn("running")) < num_workers
    /\ futures' = [futures EXCEPT ![i] = "running"]
    /\ UNCHANGED <<apc, ts_rows, optimized_chunk_size, chunk_args,
                   daily_data_accumulator, terminate_requested, day_file,
                   days_written, ret, reported, besideAggregate>>

\* the worker returns the rows of the chunk, or raises
worker_finish(i, ok) ==
    /\ i \in FuturesIn("running")
    /\ futures' = [futures EXCEPT ![i] = IF ok THEN "done" ELSE "raised"]
    /\ UNCHANGED <<apc, ts_rows, optimized_chunk_size, chunk_args,
                   daily_data_accumulator, terminate_requested, day_file,
                   days_written, ret, reported, besideAggregate>>

\* the loop over as_completed(futures), termination not requested: the result
\* of a finished chunk is appended to the accumulator of its day if it has rows;
\* the exception of a chunk that raised is logged
future_result(i) ==
    /\ apc = "results"
    /\ ~terminate_requested
    /\ i \in FuturesIn("done") \cup FuturesIn("raised")
    /\ LET result_df == process_chunk_in_process(ts_rows, chunk_args[i],
                                                  optimized_chunk_size)
       IN  daily_data_accumulator' =
               IF futures[i] = "done" /\ result_df # {}
               THEN Append(daily_data_accumulator, result_df)
               ELSE daily_data_accumulator
    /\ futures' = [futures EXCEPT ![i] = "consumed"]
    /\ UNCHANGED <<apc, ts_rows, optimized_chunk_size, chunk_args,
                   terminate_requested, day_file, days_written, ret, reported,
                   besideAggregate>>

\* the loop over as_completed(futures), termination requested: every future
\* that is not done is cancelled, which succeeds for those no worker has taken,
\* and the loop is left
cancel_remaining ==
    /\ apc = "results"
    /\ terminate_requested
    /\ FuturesIn("done") \cup FuturesIn("raised") # {}
    /\ futures' = [i \in DOMAIN futures |->
                      IF futures[i] = "queued" THEN "cancelled" ELSE futures[i]]
    /\ apc' = "shutdown"
    /\ UNCHANGED <<ts_rows, optimized_chunk_size, chunk_args,
                   daily_data_accumulator, terminate_requested, day_file,
                   days_written, ret, reported, besideAggregate>>

\* executor.shutdown(wait=True) and the end of the with block: wait for the
\* chunks the workers hold
executor_shutdown ==
    /\ \/ apc = "shutdown"
       \/ apc = "results" /\ \A i \in DOMAIN futures : futures[i] = "consumed"
    /\ FuturesIn("running") = {}
    /\ FuturesIn("queued") = {}
    /\ apc' = "write"
    /\ UNCHANGED <<ts_rows, optimized_chunk_size, chunk_args, futures,
                   daily_data_accumulator, terminate_requested, day_file,
                   days_written, ret, reported, besideAggregate>>

\* the loop over the accumulated days (one day here): unless termination is
\* requested the frames of the day are concatenated and written; the day counts
\* if write_daily_parquet returns the file and not None.  Then return True
write_daily_files(ok) ==
    /\ apc = "write"
    /\ IF daily_data_accumulator # <<>> /\ ~terminate_requested
       THEN /\ day_file' = IF ok THEN daily_data_accumulator ELSE day_file
            /\ days_written' = IF ok THEN 1 ELSE 0
       ELSE UNCHANGED <<day_file, days_written>>
    /\ daily_data_accumulator' = <<>>
    /\ ret' = "True"
    /\ apc' = "returned"
    /\ UNCHANGED <<ts_rows, optimized_chunk_size, chunk_args, futures,
                   terminate_requested, reported, besideAggregate>>

\* main_direct_processing: "if success:" the file is logged as processed, else
\* it is logged as failed and create_failed_signal is called.  The locals of
\* the call that returned are gone
main_direct_processing_report ==
    /\ apc = "returned"
    /\ reported' = IF ret = "True" THEN "success" ELSE "failed"
    /\ apc' = "idle"
    /\ ts_rows' = <<>>
    /\ optimized_chunk_size' = 1
    /\ chunk_args' = <<>>
    /\ futures' = <<>>
    /\ UNCHANGED <<daily_data_accumulator, terminate_requested, day_file,
                   days_written, ret, besideAggregate>>

\* signal_handler: SIGINT or SIGTERM arrives
signal_handler ==
    /\ ~terminate_requested
    /\ terminate_requested' = TRUE
    /\ UNCHANGED <<apc, ts_rows, optimized_chunk_size, chunk_args, futures,
                   daily_data_accumulator, day_file, days_written, ret, reported,
                   besideAggregate>>

InitAggregate ==
    /\ apc = "idle"
    /\ ts_rows = <<>>
    /\ optimized_chunk_size = 1
    /\ chunk_args = <<>>
    /\ futures = <<>>
    /\ daily_data_accumulator = <<>>
    /\ terminate_requested = FALSE
    /\ day_file = <<>>
    /\ days_written = 0
    /\ ret = "none"
    /\ reported = "none"

\* ------------------------------------------------------------------------
\* Fetching the files of a folder (step-1/hpc_transformer.py and
\* hpc_etl_pipeline/src/extractors/http_extractor.py)
\* ------------------------------------------------------------------------

\* number of required files of a folder (required_files, file_patterns)
NumRequired == 2

\* FileDownloader.__init__: max_retries
downloader_max_retries == 3

RequiredFiles == 1..NumRequired

\* the two callers of FileDownloader.download_files_parallel
Extractors == {"HpcDataTransformer", "HttpExtractor"}

\* what one attempt of download_file leaves behind: the whole file, an empty
\* file ("Downloaded file is empty or missing"), nothing new because the
\* request raised, or a part of the file because the stream raised
AttemptOutcomes == {"whole", "empty", "raised", "partial"}

\* the number of downloads that returned True
success_count(res) == Cardinality({ f \in RequiredFiles : res[f] = "True" })

\* HpcDataTransformer.download_folder_files: all downloads succeeded
hpc_download_folder_files(res) == success_count(res) = NumRequired

\* HttpExtractor._download_folder_files: "return success_count > 0"
http_download_folder_files(res) == success_count(res) > 0

\* download_folder_files is called for a folder with a new temp directory: the
\* download tasks of all required files are submitted
download_folder_files(e) ==
    /\ dpc \in {"idle", "returned"}
    /\ extractor' = e
    /\ local_files' = [f \in RequiredFiles |-> "absent"]
    /\ download_attempt' = [f \in RequiredFiles |-> 0]
    /\ results' = [f \in RequiredFiles |-> "none"]
    /\ fetched' = FALSE
    /\ dpc' = "downloading"
    /\ UNCHANGED <<besideDownload>>

\* FileDownloader.download_file, one attempt for file f: it returns True if the
\* file exists with a size above 0; otherwise the exception is logged and the
\* next attempt follows, or False is returned after the last one
download_file(f, outcome) ==
    /\ dpc = "downloading"
    /\ results[f] = "none"
    /\ local_files' = [local_files EXCEPT
                          ![f] = IF outcome = "raised" THEN @ ELSE outcome]
    /\ IF outcome = "whole"
       THEN /\ results' = [results EXCEPT ![f] = "True"]
            /\ UNCHANGED download_attempt
       ELSE /\ download_attempt' = [download_attempt EXCEPT ![f] = @ + 1]
            /\ results' = [results EXCEPT
                              ![f] = IF download_attempt[f] + 1
                                        < downloader_max_retries
                                     THEN "none" ELSE "False"]
    /\ UNCHANGED <<dpc, extractor, fetched, besideDownload>>

\* download_files_parallel has the result of every task; the caller counts the
\* successes and returns
download_folder_files_return ==
    /\ dpc = "downloading"
    /\ \A f \in RequiredFiles : results[f] # "none"
    /\ fetched' = IF extractor = "HpcDataTransformer"
                  THEN hpc_download_folder_files(results)
                  ELSE http_download_folder_files(results)
    /\ dpc' = "returned"
    /\ UNCHANGED <<extractor, local_files, download_attempt, results,
                   besideDownload>>

InitDownload ==
    /\ dpc = "idle"
    /\ extractor = "HpcDataTransformer"
    /\ local_files = [f \in RequiredFiles |-> "absent"]
    /\ download_attempt = [f \in RequiredFiles |-> 0]
    /\ results = [f \in RequiredFiles |-> "none"]
    /\ fetched = FALSE

\* ------------------------------------------------------------------------
\* The command lines and their exit codes (hpc_etl_pipeline/run_pipeline.py
\* and step-1/hpc_transformer.py)
\* ------------------------------------------------------------------------

\* the number of files (folders, for hpc_transformer) one run is given
MaxFiles == 2

\* the two programs with "sys.exit(main())"
Clis == {"run_pipeline", "hpc_transformer"}

\* run_pipeline.main: --file, --folder, --watch, and full extraction otherwise;
\* hpc_transformer.main has the single mode run_transformation
Modes(c) == IF c = "run_pipeline"
            THEN {"file", "folder", "watch", "extraction"}
            ELSE {"run_transformation"}

AllModes == Modes("run_pipeline") \cup Modes("hpc_transformer")

\* what Pipeline.process_file does with a file: it is saved (processed_files
\* is incremented and True returned), it fails in the loader or raises
\* (failed_files is incremented, False), or a frame is empty (False, no count)
FileOutcomes == {"saved", "failed", "empty"}

\* the exit status of an interpreter that ends on a KeyboardInterrupt that
\* no handler caught: 1, or death by SIGINT, which a shell reports as 130
UncaughtInterrupt == {1, 130}

\* the value the mode function of run_pipeline returns at its end
run_single_file_mode(success) == IF success THEN 0 ELSE 1

run_folder_mode(processed) == IF processed > 0 THEN 0 ELSE 1

run_extraction_mode(processed) == IF processed > 0 THEN 0 ELSE 1

\* hpc_transformer.main: "return 0 if stats['failed'] == 0 else 1"
transformer_main(failed) == IF failed = 0 THEN 0 ELSE 1

\* the exit code of a run that a KeyboardInterrupt ends: run_watch_mode
\* returns 0 (FileWatcher.start catches it and returns, and run_watch_mode
\* has its own handler), hpc_transformer.main returns 130, and the other
\* modes of run_pipeline have no handler for it
interrupt_exit(c, md, status) ==
    IF c = "hpc_transformer" THEN 130
    ELSE IF md = "watch" THEN 0
    ELSE status

\* main is entered from the command line with one of its modes
cli_main(c, md) ==
    /\ cpc \in {"idle", "exited"}
    /\ md \in Modes(c)
    /\ cli' = c
    /\ mode' = md
    /\ handled' = 0
    /\ processed_files' = 0
    /\ failed_files' = 0
    /\ interrupted' = FALSE
    /\ exit_code' = -1
    /\ cpc' = "running"
    /\ UNCHANGED <<besideCli>>

\* Pipeline.process_file on the next file (process_single_folder on the next
\* folder in run_transformation, which only succeeds or fails); the single file
\* mode has one file
process_file(outcome) ==
    /\ cpc = "running"
    /\ handled < MaxFiles
    /\ mode = "file" => handled = 0
    /\ cli = "hpc_transformer" => outcome # "empty"
    /\ handled' = handled + 1
    /\ processed_files' = IF outcome = "saved"
                          THEN processed_files + 1 ELSE processed_files
    /\ failed_files' = IF outcome = "failed"
                       THEN failed_files + 1 ELSE failed_files
    /\ UNCHANGED <<cpc, cli, mode, interrupted, exit_code, besideCli>>

\* the mode function comes to its end and main returns its value to sys.exit;
\* the watch mode blocks in FileWatcher.start until it is interrupted
cli_return ==
    /\ cpc = "running"
    /\ mode # "watch"
    /\ mode = "file" => handled = 1
    /\ exit_code' =
          CASE mode = "file" -> run_single_file_mode(processed_files > 0)
            [] mode = "folder" -> run_folder_mode(processed_files)
            [] mode = "extraction" -> run_extraction_mode(processed_files)
            [] mode = "run_transformation" -> transformer_main(failed_files)
    /\ cpc' = "exited"
    /\ UNCHANGED <<cli, mode, handled, processed_files, failed_files,
                   interrupted, besideCli>>

\* the user interrupts the run (Ctrl+C raises KeyboardInterrupt in the main
\* thread)
keyboard_interrupt(status) ==
    /\ cpc = "running"
    /\ interrupted' = TRUE
    /\ exit_code' = interrupt_exit(cli, mode, status)
    /\ cpc' = "exited"
    /\ UNCHANGED <<cli, mode, handled, processed_files, failed_files,
                   besideCli>>

\* an Exception before the first file (validate_args, Pipeline(config), a
\* folder that does not exist, a source that does not validate, no discovery):
\* every handler of it returns 1
cli_exception ==
    /\ cpc = "running"
    /\ handled = 0
    /\ exit_code' = 1
    /\ cpc' = "exited"
    /\ UNCHANGED <<cli, mode, handled, processed_files, failed_files,
                   interrupted, besideCli>>

InitCli ==
    /\ cpc = "idle"
    /\ cli = "run_pipeline"
    /\ mode = "extraction"
    /\ handled = 0
    /\ processed_files = 0
    /\ failed_files = 0
    /\ interrupted = FALSE
    /\ exit_code = -1

\* ------------------------------------------------------------------------
\* The file watcher of the watch mode
\* (hpc_etl_pipeline/src/watchers/file_watcher.py)
\* ------------------------------------------------------------------------

\* number of file paths in the watched directory
NumPaths == 2

\* number of file system events the observer reports in all
MaxEvents == 3

\* PipelineFileHandler.__init__: max_move_attempts
max_move_attempts == 3

Paths == 1..NumPaths

\* what one attempt of _process_file_with_retry meets: the file is gone, its
\* size is still changing, process_file returns True or False, or it raises
TaskOutcomes == {"missing", "unstable", "processed", "failed", "raised"}

\* the observer reports a created event for path p: the file was created, or
\* was removed and created again, in the watched directory
observer_event(p) ==
    /\ emitted < MaxEvents
    /\ watcher' = [watcher EXCEPT !.emitted = @ + 1,
                                  !.event_queue = Append(@, p)]
    /\ UNCHANGED besideWatch

\* PipelineFileHandler.on_created for the next event of the queue: a file that
\* does not match the patterns is ignored; else, after the wait,
\* _process_file_with_retry is called for its path
on_created(matches) ==
    /\ watch_pc = "idle"
    /\ event_queue # <<>>
    /\ watcher' =
           IF matches
           THEN [watcher EXCEPT !.event_queue = Tail(@),
                                !.file_path = Head(event_queue),
                                !.move_attempt = 0,
                                !.tasks[Head(event_queue)] = @ + 1,
                                !.watch_pc = "processing"]
           ELSE [watcher EXCEPT !.event_queue = Tail(@)]
    /\ UNCHANGED besideWatch

\* _process_file_with_retry, one attempt: it returns when the file is gone or
\* process_file returns True; else it sleeps and goes to the next attempt, and
\* returns after max_move_attempts of them
_process_file_with_retry(outcome) ==
    /\ watch_pc = "processing"
    /\ watcher' =
           IF outcome \in {"missing", "processed"}
              \/ move_attempt + 1 >= max_move_attempts
           THEN [watcher EXCEPT !.watch_pc = "idle"]
           ELSE [watcher EXCEPT !.move_attempt = @ + 1]
    /\ UNCHANGED besideWatch

InitWatch ==
    watcher = [watch_pc |-> "idle", event_queue |-> <<>>, emitted |-> 0,
               file_path |-> 1, move_attempt |-> 0,
               tasks |-> [p \in Paths |-> 0]]

\* ------------------------------------------------------------------------
\* The full extraction run (hpc_etl_pipeline/src/core/pipeline.py Pipeline.run
\* over hpc_etl_pipeline/src/extractors/http_extractor.py)
\* ------------------------------------------------------------------------

\* the source argument of Pipeline.run: None or one folder
NoSource == 0

\* HttpExtractor.extract: the folders it goes through
FoldersOf(src) ==
    IF src = NoSource THEN [i \in 1..NumFolders |-> i] ELSE <<src>>

\* what _extract_folder does for a folder: its download returns True and the
\* files in its temp directory are yielded, its download returns False and
\* nothing is yielded, or the making or the listing of its temp directory
\* raises
ExtractOutcomes == {"yielded", "nothing", "raised"}

\* _extract_folder: the files of folder f that are yielded, in the order of
\* the file patterns, as pairs <<folder, file>>
YieldedFiles(f, files) ==
    SelectSeq([i \in 1..NumRequired |-> <<f, i>>], LAMBDA x : x[2] \in files)

NoStats == [processed |-> 0, failed |-> 0]

\* Pipeline.run(source) is called and the source validates:
\* "extracted_files = list(self.extractor.extract(source))" begins
pipeline_run(src) ==
    /\ run_pc \in {"idle", "returned", "raised"}
    /\ pipeline' = [run_pc |-> "extract", source |-> src,
                    to_extract |-> FoldersOf(src), attempted |-> {},
                    extracted_files |-> <<>>, stats |-> NoStats]
    /\ UNCHANGED besideRun

\* HttpExtractor._extract_folder for the next folder inside list(...); an
\* exception leaves extract as ExtractionError, and the handler of Pipeline.run
\* raises HpcEtlException: the run is over
_extract_folder(outcome, files) ==
    /\ run_pc = "extract"
    /\ to_extract # <<>>
    /\ outcome = "yielded" <=> files # {}
    /\ pipeline' =
           [pipeline EXCEPT
               !.attempted = @ \cup {Head(to_extract)},
               !.to_extract = Tail(@),
               !.extracted_files = @ \o YieldedFiles(Head(to_extract), files),
               !.run_pc = IF outcome = "raised" THEN "raised" ELSE "extract"]
    /\ UNCHANGED besideRun

\* the list of extracted files is complete: with no file Pipeline.run returns
\* the empty statistics, else it goes through the files
extraction_done ==
    /\ run_pc = "extract"
    /\ to_extract = <<>>
    /\ pipeline' =
           [pipeline EXCEPT
               !.run_pc = IF extracted_files = <<>> THEN "returned"
                          ELSE "process"]
    /\ UNCHANGED besideRun

\* Pipeline.run: "for file_path in extracted_files: self.process_file(...)";
\* process_file counts the file as processed or failed, or returns False for
\* an empty frame without counting, and catches every Exception
run_process_file(outcome) ==
    /\ run_pc = "process"
    /\ extracted_files # <<>>
    /\ pipeline' =
           [pipeline EXCEPT
               !.extracted_files = Tail(@),
               !.stats = IF outcome = "saved"
                         THEN [@ EXCEPT !.processed = @ + 1]
                         ELSE IF outcome = "failed"
                              THEN [@ EXCEPT !.failed = @ + 1]
                              ELSE @]
    /\ UNCHANGED besideRun

\* Pipeline.run: the loop is over, the extractor cleans up and the statistics
\* are returned
pipeline_run_return ==
    /\ run_pc = "process"
    /\ extracted_files = <<>>
    /\ pipeline' = [pipeline EXCEPT !.run_pc = "returned"]
    /\ UNCHANGED besideRun

InitRun ==
    pipeline = [run_pc |-> "idle", source |-> NoSource, to_extract |-> <<>>,
                attempted |-> {}, extracted_files |-> <<>>,
                stats |-> NoStats]

\* ------------------------------------------------------------------------
\* The disk check before a folder (step-1/hpc_transformer.py
\* DiskSpaceManager.check_disk_space and the head of process_single_folder)
\* ------------------------------------------------------------------------

\* DiskSpaceManager.__init__: min_free_gb, in GB
min_free_gb == 10

\* the available space that df or statvfs reports, in GB
AvailableGb == {0, 4, 5, 9, 10, 20}

\* how a disk check ends: df answers, df fails and os.statvfs answers, or an
\* exception is raised (subprocess timeout, unparsable output, OSError)
CheckOutcomes == {"df", "statvfs", "raised"}

\* DiskSpaceManager.check_disk_space: <<has_space, free_gb>>; the handler of
\* an exception returns <<True, 0.0>>
check_disk_space(outcome, avail) ==
    IF outcome = "raised"
    THEN <<TRUE, 0>>
    ELSE <<avail >= min_free_gb, avail>>

\* run_transformation starts its loop over the pending folders
disk_run_transformation ==
    /\ disk_pc \in {"idle", "returned"}
    /\ disk_check' = [disk_check EXCEPT
                         !.folder_index = 0,
                         !.starts = {},
                         !.folder_result = [f \in Folders |-> "none"],
                         !.disk_pc = "loop"]
    /\ UNCHANGED besideDisk

\* process_single_folder for the next folder: the disk is checked; without
\* space False is returned and the folder is failed, else the temp directory is
\* made and the download begins
process_single_folder_check(outcome, avail) ==
    /\ disk_pc = "loop"
    /\ folder_index < NumFolders
    /\ LET check == check_disk_space(outcome, avail)
           f == folder_index + 1
       IN  disk_check' =
               IF check[1]
               THEN [disk_check EXCEPT
                        !.has_space = check[1],
                        !.free_gb = check[2],
                        !.starts = @ \cup {<<f, check[2]>>},
                        !.disk_pc = "processing"]
               ELSE [disk_check EXCEPT
                        !.has_space = check[1],
                        !.free_gb = check[2],
                        !.folder_result[f] = "False",
                        !.folder_index = @ + 1]
    /\ UNCHANGED besideDisk

\* process_single_folder: the download, the processing and the saving of the
\* folder end and the folder is marked processed or failed
process_single_folder_end(ok) ==
    /\ disk_pc = "processing"
    /\ disk_check' =
           [disk_check EXCEPT
               !.folder_result[folder_index + 1] =
                   IF ok THEN "True" ELSE "False",
               !.folder_index = @ + 1,
               !.disk_pc = "loop"]
    /\ UNCHANGED besideDisk

\* run_transformation: the loop is over
disk_run_transformation_return ==
    /\ disk_pc = "loop"
    /\ folder_index = NumFolders
    /\ disk_check' = [disk_check EXCEPT !.disk_pc = "returned"]
    /\ UNCHANGED besideDisk

InitDisk ==
    disk_check = [disk_pc |-> "idle", folder_index |-> 0, has_space |-> TRUE,
                  free_gb |-> 0, starts |-> {},
                  folder_result |-> [f \in Folders |-> "none"]]

\* ------------------------------------------------------------------------
\* The daily files and completion signals of one metric file (step-2/
\* consumer.py process_ts_file_in_parallel after its chunks, and
\* write_daily_parquet)
\* ------------------------------------------------------------------------

\* number of days that the rows of the metric files fall on
NumDataDays == 2

DataDays == 1..NumDataDays

\* the keys of the complete signals: <day>.complete and <month>.complete
DataKeys == DataDays \cup {Month}

\* the keys of daily_data_accumulator in the order of the dict: the days that
\* the time column of the rows names, each once
DayOrders ==
    { s \in SeqsUpTo(DataDays, NumDataDays) :
        \A i, j \in DOMAIN s : i # j => s[i] # s[j] }

\* how write_daily_parquet ends: the temp file is written and moved and the
\* path is returned, or write_parquet raises over a part of the temp file, or
\* shutil.move raises over the written temp file; None is returned then and
\* the temp file stays
WriteOutcomes == {"written", "write_raised", "move_raised"}

\* process_ts_file_in_parallel(ts_file_path, jobs_df, year, month, day) has
\* collected the results of its chunks: the accumulator holds frames for the
\* days in order; day is None for a monthly file
daily_files_begin(k, order) ==
    /\ loop_pc \in {"idle", "returned"}
    /\ daily_files' = [daily_files EXCEPT
                          !.call_day = k,
                          !.to_write = order,
                          !.written_days = {},
                          !.failed_days = {},
                          !.signalled = {},
                          !.loop_pc = "writing"]
    /\ UNCHANGED besideDaily

\* the loop over the accumulator, one day: write_daily_parquet, and for a
\* returned path "days_processed_successfully += 1" and create_complete_signal
\* of that day
write_daily_file(outcome) ==
    /\ loop_pc = "writing"
    /\ to_write # <<>>
    /\ LET d == Head(to_write)
       IN  daily_files' =
               IF outcome = "written"
               THEN [daily_files EXCEPT
                        !.day_output[d] = "whole",
                        !.written_days = @ \cup {d},
                        !.complete_signals = @ \cup {d},
                        !.signalled = @ \cup {d},
                        !.to_write = Tail(@)]
               ELSE [daily_files EXCEPT
                        !.day_temp[d] = IF outcome = "write_raised"
                                        THEN "partial" ELSE "whole",
                        !.failed_days = @ \cup {d},
                        !.to_write = Tail(@)]
    /\ UNCHANGED besideDaily

\* "if terminate_requested: break": the days left are not written
daily_files_break ==
    /\ loop_pc = "writing"
    /\ to_write # <<>>
    /\ daily_files' = [daily_files EXCEPT !.to_write = <<>>]
    /\ UNCHANGED besideDaily

\* after the loop: "if day and days_processed_successfully > 0" the complete
\* signal of the day of the call, "elif days_processed_successfully > 0" that
\* of the month; True is returned
create_completion_signals ==
    /\ loop_pc = "writing"
    /\ to_write = <<>>
    /\ daily_files' =
           IF written_days # {}
           THEN [daily_files EXCEPT
                    !.complete_signals = @ \cup {call_day},
                    !.signalled = @ \cup {call_day},
                    !.loop_pc = "returned"]
           ELSE [daily_files EXCEPT !.loop_pc = "returned"]
    /\ UNCHANGED besideDaily

InitDaily ==
    daily_files = [loop_pc |-> "idle", call_day |-> Month, to_write |-> <<>>,
                   day_output |-> [d \in DataDays |-> "absent"],
                   day_temp |-> [d \in DataDays |-> "absent"],
                   written_days |-> {}, failed_days |-> {},
                   signalled |-> {}, complete_signals |-> {}]

\* ------------------------------------------------------------------------
\* Specifications
\* ------------------------------------------------------------------------

InitState ==
    /\ InitSignals /\ InitReceiver /\ InitProducerState /\ InitSender
    /\ InitWriters /\ InitOrchestrator
    /\ InitPersist /\ InitAggregate /\ InitDownload /\ InitCli /\ InitWatch
    /\ InitDisk /\ InitDaily
    /\ InitRun

NextSignal ==
    \/ \E k \in Keys : create_ready_signal(k)
    \/ \E k \in Keys : create_processing_signal(k)
    \/ \E k \in Keys : create_complete_signal(k)
    \/ \E k \in Keys : create_failed_signal(k)
    \/ \E ok \in BOOLEAN : create_signal_write(ok)
    \/ remove_prior_and_return
    \/ \E d \in Days : producer_create_ready_signal(d)

\* the signal directory under the calls of ReadySignalManager and the producer
InitSignal == prog = "signal" /\ InitState

SpecSignal == InitSignal /\ [][NextSignal]_vars

NextReceiver ==
    \/ \E d \in Days : consumer_write_day(d)
    \/ consumer_complete_month
    \/ find_completed_files
    \/ main_loop_sleep
    \/ main_loop_give_up
    \/ transfer_file_begin
    \/ transfer_file_dest_exists
    \/ transfer_file_copy_start
    \/ \E ok \in BOOLEAN : transfer_file_copy_end(ok)
    \/ transfer_file_rename
    \/ cleanup_input_files
    \/ transfer_file_touch
    \/ transfer_file_unlink_complete
    \/ transfer_file_month_signal
    \/ transfer_file_unlink_source
    \/ Tick

\* the step-2 receiver next to the consumer that publishes outputs
InitStage2 == prog = "receiver" /\ InitState

SpecReceiver == InitStage2 /\ [][NextReceiver]_vars

NextProducer ==
    \/ main_wait_destination_full
    \/ main_begin_cycle
    \/ main_end_cycle
    \/ main_next_month
    \/ main_month_done
    \/ \E present, stale \in BOOLEAN : main_next_file(present, stale)
    \/ \E at_source \in BOOLEAN : process_metric_file_accounting(at_source)
    \/ copy_file_exists
    \/ \E found \in BOOLEAN : copy_file_start(found)
    \/ \E ok \in BOOLEAN : copy_file_copied(ok)
    \/ copy_file_rename
    \/ \E d \in Days : process_metric_file_ready(d)
    \/ \E at_hand \in BOOLEAN : downstream_remove(at_hand)

\* the step-2 producer next to the stages that empty its destination
InitProducer == prog = "producer" /\ InitState

SpecProducer == InitProducer /\ [][NextProducer]_vars

NextRetransfer ==
    \/ \E d \in Days : consumer_write_day(d)
    \/ \E d \in Days, v \in 1..MaxVer : consumer_write_day_again(d, v)
    \/ consumer_complete_month
    \/ find_completed_files
    \/ main_loop_sleep
    \/ main_loop_give_up
    \/ transfer_file_begin
    \/ transfer_file_dest_exists
    \/ transfer_file_copy_start
    \/ \E ok \in BOOLEAN : transfer_file_copy_end(ok)
    \/ transfer_file_rename
    \/ cleanup_input_files
    \/ transfer_file_touch
    \/ transfer_file_unlink_complete
    \/ transfer_file_month_signal
    \/ transfer_file_unlink_source
    \/ Tick

\* the step-2 receiver next to a consumer that also writes again the bytes of
\* an output it has published before
InitRetransfer == prog = "retransfer" /\ InitState

SpecRetransfer == InitRetransfer /\ [][NextRetransfer]_vars

\* the three programs that copy files into the directory of the next stage
Movers == {"receiver", "producer", "sender"}

InitMovers == prog \in Movers /\ InitState

NextMovers ==
    \/ prog = "receiver" /\ NextReceiver
    \/ prog = "producer" /\ NextProducer
    \/ prog = "sender" /\ copy_file_safely_start
    \/ prog = "sender" /\ \E outcome \in {"whole", "short", "raised"} :
                             copy_file_safely_copied(outcome)
    \/ prog = "sender" /\ copy_file_safely_verify
    \/ prog = "sender" /\ sender_restart
    \/ prog = "sender" /\ shared_file_taken

\* one of the movers, whichever, running on its directories
SpecMovers == InitMovers /\ [][NextMovers]_vars

NextWriters ==
    \/ \E w \in Writers : writer_call(w)
    \/ write_open
    \/ write_raise
    \/ \E left \in Sizes \ {"absent"} : write_body(left)
    \/ write_daily_parquet_return
    \/ process_single_folder_return
    \/ \E space \in BOOLEAN : write_chunk_attempt(space)
    \/ \E valid \in BOOLEAN : write_chunk_validate(valid)
    \/ \E valid \in BOOLEAN : write_chunk_verify(valid)
    \/ _save_single_file_return
    \/ \E valid \in BOOLEAN : _save_chunks_next(valid)

\* the writers of output files, one call after the other
InitWriting == prog = "writers" /\ InitState

SpecWriters == InitWriting /\ [][NextWriters]_vars

NextOrchestrator ==
    \/ \E found \in BOOLEAN, max_folders \in 0..NumFolders :
          run_transformation(found, max_folders)
    \/ run_transformation_return
    \/ process_single_folder_no_data
    \/ process_single_folder_version
    \/ \E ok \in BOOLEAN : process_single_folder_save(ok)
    \/ orchestrator_tick

\* the step-1 orchestrator, run after run
InitRuns == prog = "orchestrator" /\ InitState

SpecOrchestrator == InitRuns /\ [][NextOrchestrator]_vars

NextPersist ==
    \/ \E f \in Folders, i \in 0..(NumFolders - 1) : persist_mark_processed(f, i)
    \/ \E f \in Folders : persist_mark_failed(f)
    \/ save_status_open
    \/ \E ok \in BOOLEAN : save_status_dump(ok)
    \/ save_status_rename
    \/ \E f \in Folders : persist_get_next_version(f)
    \/ save_versions_open
    \/ \E ok \in BOOLEAN : save_versions_dump(ok)
    \/ crash_and_restart

\* the process that keeps the status JSON and the version JSON
InitPersisting == prog = "persist" /\ InitState

SpecPersist == InitPersisting /\ [][NextPersist]_vars

NextAggregate ==
    \/ \E rows \in SeqsUpTo(TsRow, MaxRows), size \in 1..MaxRows :
          process_ts_file_in_parallel(rows, size)
    \/ chunk_args_next
    \/ executor_submit
    \/ major_error
    \/ \E i \in 1..MaxRows : worker_start(i)
    \/ \E i \in 1..MaxRows, ok \in BOOLEAN : worker_finish(i, ok)
    \/ \E i \in 1..MaxRows : future_result(i)
    \/ cancel_remaining
    \/ executor_shutdown
    \/ \E ok \in BOOLEAN : write_daily_files(ok)
    \/ main_direct_processing_report
    \/ signal_handler

\* the step-2 consumer processing metric files, one call after the other
InitAggregating == prog = "consumer" /\ InitState

SpecAggregate == InitAggregating /\ [][NextAggregate]_vars

NextDownload ==
    \/ \E e \in Extractors : download_folder_files(e)
    \/ \E f \in RequiredFiles, outcome \in AttemptOutcomes :
          download_file(f, outcome)
    \/ download_folder_files_return

\* the fetch of one folder after the other
InitDownloading == prog = "download" /\ InitState

SpecDownload == InitDownloading /\ [][NextDownload]_vars

NextCli ==
    \/ \E c \in Clis, md \in AllModes : cli_main(c, md)
    \/ \E outcome \in FileOutcomes : process_file(outcome)
    \/ cli_return
    \/ \E status \in UncaughtInterrupt : keyboard_interrupt(status)
    \/ cli_exception

\* one run of a command line after the other
InitCliRuns == prog = "cli" /\ InitState

SpecCli == InitCliRuns /\ [][NextCli]_vars

NextWatch ==
    \/ \E p \in Paths : observer_event(p)
    \/ \E matches \in BOOLEAN : on_created(matches)
    \/ \E outcome \in TaskOutcomes : _process_file_with_retry(outcome)

\* the watch mode: the observer thread next to the handler
InitWatching == prog = "watch" /\ InitState

SpecWatch == InitWatching /\ [][NextWatch]_vars

NextRun ==
    \/ \E src \in {NoSource} \cup Folders : pipeline_run(src)
    \/ \E outcome \in ExtractOutcomes, files \in SUBSET RequiredFiles :
          _extract_folder(outcome, files)
    \/ extraction_done
    \/ \E outcome \in FileOutcomes : run_process_file(outcome)
    \/ pipeline_run_return

\* one full extraction run after the other
InitExtraction == prog = "extraction" /\ InitState

SpecExtraction == InitExtraction /\ [][NextRun]_vars

NextDisk ==
    \/ disk_run_transformation
    \/ \E outcome \in CheckOutcomes, avail \in AvailableGb :
           process_single_folder_check(outcome, avail)
    \/ \E ok \in BOOLEAN : process_single_folder_end(ok)
    \/ disk_run_transformation_return

\* the folders of one run after the other, each behind its disk check
InitDiskChecks == prog = "disk" /\ InitState

SpecDisk == InitDiskChecks /\ [][NextDisk]_vars

NextDaily ==
    \/ \E k \in DataKeys, order \in DayOrders : daily_files_begin(k, order)
    \/ \E outcome \in WriteOutcomes : write_daily_file(outcome)
    \/ daily_files_break
    \/ create_completion_signals

\* the consumer writing the daily files of one metric file after the other
InitDailyFiles == prog = "daily" /\ InitState

SpecDaily == InitDailyFiles /\ [][NextDaily]_vars

TypeOK ==
    /\ now \in 0..MaxTime
    /\ signals \in [Keys -> [Status -> SigFile]]
    /\ srcOut \in [Days -> DataFile]
    /\ destOut \in [Days -> DataFile]
    /\ destTemp \in [Days -> DataFile]
    /\ retry_counter \in [Days -> 0..MAX_RETRIES]

\* ------------------------------------------------------------------------
\* Properties of the signal directory (SpecSignal)
\* ------------------------------------------------------------------------

\* C7: for every key, in every reachable state of the signal directory, the
\* ready and the processing signal of the key do not both exist.
C7_AtMostOneActiveSignal ==
    \A k \in Keys :
        ~ ( /\ Exists(FileAt(signals, get_signal_path(k, "ready")))
            /\ Exists(FileAt(signals, get_signal_path(k, "processing"))) )

\* the step in which create_complete_signal returns
CompleteReturns == call.pc = "remove" /\ call.op = "complete" /\ call'.pc = "idle"

TouchStep == rpc = "touch" /\ rpc' = "unlink_complete"

\* the complete signals that can have triggered a transfer of day d
Triggers(d) == { c \in {d, Month} : HasSignal(signals, c, "complete") }

\* C1: whenever the receiver creates <key>.transferred, its mtime is at least
\* the mtime of the complete signal (daily or monthly) that triggered the
\* transfer, whatever the consumer wrote in between.
C1_SignalMonotonic ==
    [][TouchStep =>
         \A c \in Triggers(cur) :
            Mtime(signals', cur, "transferred") >= Mtime(signals, c, "complete")]_vars

\* the receiver has just re-created the transferred signal of a day whose
\* complete signal was written after the clock had advanced
C1_Witness ==
    /\ rpc = "unlink_complete"
    /\ HasSignal(signals, cur, "complete")
    /\ Mtime(signals, cur, "complete") > 0
    /\ Mtime(signals, cur, "transferred") >= Mtime(signals, cur, "complete")

\* the step in which transfer_file deletes the source file of the day
DeleteSourceStep ==
    rpc = "unlink_source" /\ Exists(srcOut[cur]) /\ ~Exists(srcOut'[cur])

\* C2: the Stage Mover deletes a source file only when the checksum of the
\* destination copy equals the checksum the source had before the transfer.
C2_DeleteOnlyVerified ==
    [][DeleteSourceStep => MD5(destOut[cur]) = source_hash]_vars

\* C3: <key>.transferred is created only when the output file of the key has
\* been verified at the destination: the destination holds a file whose
\* checksum is the one the output file had when its transfer began.
C3_TransferredOnlyVerified ==
    [][(TouchStep /\ source_hash # 0) => MD5(destOut[cur]) = source_hash]_vars

\* ------------------------------------------------------------------------
\* Properties of the step-2 producer (SpecProducer)
\* ------------------------------------------------------------------------

\* the producer is inside a copy: a temp file is being written or renamed
ProducerCopies == ppc \in {"copying", "rename"}

\* C4: the number of non-temp files in the consumer's input directory never
\* exceeds MAX_FILES_IN_DESTINATION, and while it is at the limit the producer
\* copies nothing.
C4_MaxInflight ==
    /\ current_file_count <= MAX_FILES_IN_DESTINATION
    /\ current_file_count >= MAX_FILES_IN_DESTINATION => ~ProducerCopies

\* the producer has filled the directory to the limit in this cycle and is
\* back at the head of its loop, where it sleeps
C4_Witness ==
    /\ current_file_count = MAX_FILES_IN_DESTINATION
    /\ files_processed_this_cycle > 0
    /\ ppc = "cycle"

\* both files of the call are at the destination under their final names
BothAtDestination(dir) ==
    /\ Exists(dir["accounting"][final_dest_path])
    /\ Exists(dir["metric"][final_dest_path])

\* the step in which process_metric_file gets to create_ready_signal
ReachesReady == ppc # "ready" /\ ppc' = "ready"

\* the step in which process_metric_file returns False: the accounting file
\* is nowhere, or a copy_file returned False
ReturnsFalse ==
    /\ ppc \in {"accounting", "copy_file", "copying", "rename"}
    /\ ppc' \notin {"copy_file", "copying", "rename", "ready"}

NoPartialFinal ==
    /\ \A d \in Days : destOut[d].kind # "partial"
    /\ \A w \in {"accounting", "metric"} :
          pdir[w][final_dest_path].kind # "partial"
    /\ sdir[final_dest_path].kind # "partial"

\* a step of a copy after which a final name holds a file it did not hold
ReceiverPublishes ==
    /\ rpc \in {"exists", "copying", "rename"}
    /\ Exists(destOut'[cur]) /\ destOut'[cur] # destOut[cur]

ProducerPublishes(w) ==
    /\ ppc \in {"copy_file", "copying", "rename"}
    /\ Exists(pdir'[w][final_dest_path])
    /\ pdir'[w][final_dest_path] # pdir[w][final_dest_path]

SenderPublishes ==
    /\ spc \in {"copying", "verify"}
    /\ Exists(sdir'[final_dest_path])
    /\ sdir'[final_dest_path] # sdir[final_dest_path]

\* the step is the rename of a whole temp file to the final name
RenamedWhole(temp, final) ==
    /\ temp.kind = "whole"
    /\ final' = temp
    /\ ~Exists(temp')

\* a step in which a copy fails
CopyFails ==
    \/ rpc = "copying" /\ rpc' = "next"
    \/ ppc = "copying" /\ ppc' = "files"
    \/ spc \in {"copying", "verify"} /\ spc' = "scan" /\ ~transferred_files'

C6_NoEmptyOutput == wout[output_path] # "empty"

\* ------------------------------------------------------------------------
\* Properties of the step-1 orchestrator (SpecOrchestrator)
\* ------------------------------------------------------------------------

\* the folders that were marked processed when the run at hand began
ProcessedBefore == before.status.processed_folders

\* C10: throughout a run, a folder that was marked processed when the run
\* began has the output files and the version it had, and is still marked
\* processed; if every folder was marked processed, the status file and the
\* version file are what they were.
C10_RerunIdempotent ==
    /\ \A f \in ProcessedBefore :
          /\ outputs[f] = before.outputs[f]
          /\ version_file[f] = before.versions[f]
          /\ f \in status_file.processed_folders
    /\ ProcessedBefore = Folders =>
          /\ status_file = before.status
          /\ version_file = before.versions
          /\ outputs = before.outputs

\* a run that began with every folder marked processed has returned, at a
\* later time than the status file was written
C10_Witness ==
    /\ opc = "idle"
    /\ ProcessedBefore = Folders
    /\ now > status_file.last_updated

\* C9: no signal file exists under its final <key>.<status> name while the
\* call that creates it is still writing its content.
C9_NoSignalVisibleWhileWritten ==
    ~ ( /\ call.pc = "writing"
        /\ Exists(FileAt(signals, get_signal_path(call.key, call.op))) )

\* C12: when transfer_file re-creates the transferred signal of a day whose
\* earlier transferred signal was removed as stale, the output file has been
\* copied to the destination again in this call and the destination file has
\* the checksum of the source file.
C12_StaleRetransferCopies ==
    [][(TouchStep /\ cur \in stale_days)
          => (copied /\ MD5(destOut[cur]) = source_hash)]_vars

\* the step in which main_loop calls transfer_file for the next file
AttemptStep == rpc = "next" /\ rpc' = "exists"

\* C13: once the attempts for a file are exhausted and its transfer_failed
\* signal has been emitted, main_loop makes no further transfer attempt for
\* that file: the attempts for a file number at most MAX_RETRIES.
C13_AtMostMaxRetriesAttempts ==
    [][AttemptStep => ~HasSignal(signals, cur', "transfer_failed")]_vars

\* the step in which the input files of day d are removed
RemoveInputsStep(d) == inputs[d] /\ ~inputs'[d]

\* C14: the input files of a day are removed only when the transferred signal
\* of that day exists.
C14_InputsRemovedAfterTransferred ==
    [][\A d \in Days :
          RemoveInputsStep(d) => HasSignal(signals, d, "transferred")]_vars

\* ------------------------------------------------------------------------
\* Properties of the status JSON and the version JSON (SpecPersist)
\* ------------------------------------------------------------------------

\* C11: at every point, also after a crash, the status JSON and the version
\* JSON each hold a whole document (or do not exist yet), never a truncated
\* one: an update becomes visible under the file's name only by a rename.
C11_JsonUpdatedAtomically ==
    /\ disk[StatusPath].kind # "truncated"
    /\ disk[VersionPath].kind # "truncated"

\* ------------------------------------------------------------------------
\* Properties of the step-2 consumer's aggregation (SpecAggregate)
\* ------------------------------------------------------------------------

\* C15: in the file written for a day, however the rows of the metric file
\* fall into chunks, no (jid, host, time) triple has more than one row.
C15_OneRowPerTriple ==
    \A t \in Triples(day_file) : RowCount(day_file, t) = 1

\* the step in which a chunk is submitted to the executor
SubmitStep == Len(futures') > Len(futures)

\* C16: once signal_handler has set terminate_requested, no further chunk is
\* submitted to the executor.
C16_NoChunkStartedAfterShutdown ==
    [][SubmitStep => ~terminate_requested]_vars

\* the step in which main_direct_processing takes the value returned for a
\* file that has rows, with no termination requested
ReportStep ==
    apc = "returned" /\ apc' = "idle" /\ ts_rows # <<>> /\ ~terminate_requested

\* C19: a file is reported successful exactly if the rows of at least one of
\* its chunks were written: it is reported failed when no chunk produced rows
\* (each raised, or had no row of a job) or when the writer failed, and a chunk
\* that raised does not fail it while another produced rows.
C19_FolderFailsOnlyWithoutOutput ==
    [][ReportStep => (reported' = "success" <=> days_written > 0)]_vars

\* ------------------------------------------------------------------------
\* Properties of the fetch of a folder (SpecDownload)
\* ------------------------------------------------------------------------

\* C17: when the fetch of a folder has returned success, every required file
\* is present in whole, and when the download of a required file has failed
\* after its retries, the fetch has not returned success.
C17_FetchNeedsEveryFile ==
    (dpc = "returned" /\ fetched) =>
        \A f \in RequiredFiles :
            local_files[f] = "whole" /\ results[f] = "True"

\* C27: a file gets at most three download attempts, an attempt that leaves a
\* zero-byte file does not count as a success, and once the download of a
\* file has returned no zero-byte file is left at its destination.
C27_NoEmptyFileAfterDownload ==
    \A f \in RequiredFiles :
        /\ download_attempt[f] <= downloader_max_retries
        /\ results[f] = "True" => local_files[f] # "empty"
        /\ results[f] # "none" => local_files[f] # "empty"

\* ------------------------------------------------------------------------
\* Properties of the command lines (SpecCli)
\* ------------------------------------------------------------------------

\* C18: in every mode, a run that has exited has the exit code 130 if it was
\* interrupted, 1 if it was not interrupted and processed no file, and 0 if
\* it was not interrupted, processed at least one file and none failed.
C18_ExitCodes ==
    cpc = "exited" =>
        /\ interrupted => exit_code = 130
        /\ (~interrupted /\ processed_files = 0) => exit_code = 1
        /\ (~interrupted /\ processed_files > 0 /\ failed_files = 0)
               => exit_code = 0

\* ------------------------------------------------------------------------
\* Properties of the receiver next to a consumer that writes outputs again
\* (SpecRetransfer)
\* ------------------------------------------------------------------------

\* transfer_file has found, for a source file that is there, a destination
\* file with the same checksum
MatchingDestination ==
    Exists(srcOut[cur]) /\ MD5(destOut[cur]) = MD5(srcOut[cur])

\* transfer_file is past its check of the destination, it has copied nothing,
\* and the checksum of the source it was called for is that of the
\* destination file
MatchingRetransfer ==
    ~copied /\ Exists(destOut[cur]) /\ MD5(destOut[cur]) = source_hash

MutatesKey(k) == signals'[k] # signals[k]

\* what a stage holds of key k when it may mutate it: the processing signal
\* of the key, or a transitional temp file of the key's output
HoldsKey(k) ==
    \/ HasSignal(signals, k, "processing")
    \/ k \in Days /\ Exists(destTemp[k])

\* C21: every step of the consumer or the receiver that creates or deletes a
\* signal of a key is taken while the processing signal of that key or a
\* transitional temp file of that key exists.
C21_KeyMutatedOnlyWhenHeld ==
    [][\A k \in Keys : MutatesKey(k) => HoldsKey(k)]_vars

\* ------------------------------------------------------------------------
\* Properties of the chunked writes (SpecWriters)
\* ------------------------------------------------------------------------

\* the writers that write an output as several parts
ChunkedWriters == {"chunked", "_save_chunks"}

\* a chunked write has returned to its caller
ChunkedWriteReturned ==
    wpc = "idle" /\ writer \in ChunkedWriters /\ saved # "none"

\* every part of the output is in place and none has failed
AllPartsWritten ==
    /\ \A i \in PartIndices : parts[i] = "whole"
    /\ writer = "_save_chunks" => chunks_saved = NumChunks

\* C22: when a chunked write has returned, either every part was written and
\* validated and the write is reported successful, or the write is reported
\* failed and no part file of it is left under its final name.
C22_PartFailureCancelsWrite ==
    ChunkedWriteReturned =>
        \/ saved = "True" /\ AllPartsWritten
        \/ saved = "False" /\ parts = NoParts

\* the indices of the part files that exist
PartsPresent == { i \in PartIndices : parts[i] # "absent" }

\* C23: when a chunked write has returned success, the part files that exist
\* have the indices 1..n for some n >= 1.
C23_PartsConsecutive ==
    (ChunkedWriteReturned /\ saved = "True") =>
        \E n \in PartIndices : PartsPresent = 1..n

\* an attempt of write_chunk_with_validation_and_retry ends in failure: the
\* next attempt for the same chunk is about to start, or False is returned
AttemptFails ==
    /\ writer = "chunked"
    /\ wpc # "idle"
    /\ \/ wpc' = "attempt" /\ chunk_num' = chunk_num
       \/ wpc' = "idle" /\ saved' = "False"

C25_OneTaskPerPath == \A p \in Paths : tasks[p] <= 1

\* ------------------------------------------------------------------------
\* Properties of the full extraction run (SpecExtraction)
\* ------------------------------------------------------------------------

\* C26: when a full extraction run is over, whether it returned or raised,
\* every folder of its source has been attempted.
C26_EveryFolderAttempted ==
    run_pc \in {"returned", "raised"} =>
        \A i \in DOMAIN FoldersOf(source) : FoldersOf(source)[i] \in attempted

\* ------------------------------------------------------------------------
\* Properties of the disk check before a folder (SpecDisk)
\* ------------------------------------------------------------------------

\* C28: the processing of a folder starts only behind a disk check that found
\* at least 5 GB free, where a check that raised counts as 0 GB free.
C28_NoStartBelowCritical ==
    /\ \A s \in starts : s[2] >= 5
    /\ disk_pc = "processing" => free_gb >= 5

\* ------------------------------------------------------------------------
\* Properties of the daily files of one metric file (SpecDaily)
\* ------------------------------------------------------------------------

\* C30: a day has the complete signal of a call only if the call has written
\* the day's file and moved it to its final name, and a day whose write
\* failed in the call has no complete signal of that call.
C30_CompleteOnlyAfterWrite ==
    \A d \in DataDays :
        /\ d \in signalled => d \in written_days /\ day_output[d] = "whole"
        /\ d \in failed_days \ written_days => d \notin signalled

====
